---- MODULE Spec2Model ----
(***************************************************************************)
(* State-machine model of the honey vending driver (xdrv_99), the full     *)
(* variant with per-box prices, solenoid locks, coin decoder and console.  *)
(* Every function of the driver is an operator from machine state to       *)
(* machine state; the host callbacks (FUNC_INIT, the 100 ms tick, console  *)
(* commands, the pulse interrupt) are the actions.                         *)
(***************************************************************************)
EXTENDS Integers, Sequences, FiniteSets, TLC

VARIABLES
  vending,        \* the process-wide struct `vending`
  settings,       \* host settings text slots 20..23 (sequences of characters)
  response,       \* the console response buffer as left by the last handler
  mqtt_connected, \* MqttIsConnected()
  retained,       \* last retained payload per custom MQTT topic
  now,            \* millis()
  utc_time,       \* Rtc.utc_time
  last_check,     \* static last_check of HoneyVending_Every100ms
  last_periodic_check, \* static last_periodic_check of HoneyVending_Every250ms
  last_unlock,    \* history: box and time of the latest solenoid activation
  host_log,       \* history: what the last callback did (see Logged) and whether
                  \* discovery was published since boot or the last count change,
                  \* the pins seen by the last button poll, and the motor actions
                  \* since the last reset
  motor_position_offset, \* static int16_t motor_position_offset
  lcd,            \* the characters shown by the display, per row
  shift_hw,       \* the 74HC595 chain: pin levels, shift stages, latched outputs
  mcp_gpio,       \* the levels on the 16 button pins (bit i low: button i+1 down)
  train,          \* history: the physical pulse train fed to the interrupt pin
  tick,           \* the 100 ms handler's position and locals while the pulse
                  \* interrupt may preempt it; history: pulses accepted, counted
  advances        \* history: number of clock steps taken (bounds the run)

vars == <<vending, settings, response, mqtt_connected, retained, now, utc_time,
          last_check, last_periodic_check, mcp_gpio, last_unlock, host_log, motor_position_offset, lcd, shift_hw, train, tick,
          advances>>

----------------------------------------------------------------------------
(* Program constants *)

NUM_SHIFT_REGISTERS == 4
UNLOCK_DURATION_MS == 60000
SOLENOID_ACTIVE_HIGH == TRUE
COIN_TIMEOUT_MS == 200
DEFAULT_PRICE_CENTS == 500
PULSE_DEBOUNCE_MS == 5
MAX_HONEY_BOX_COUNT == 30
DEFAULT_HONEY_BOX_COUNT == 15
HONEY_SETTINGS_INDEX == 20
HONEY_TIMESTAMP_INDEX == 21
HONEY_BOX_COUNT_INDEX == 22
HONEY_PRICE_INDEX == 23
MIN_PRICE_CENTS == 10
MAX_PRICE_CENTS == 10000
TICK_INTERVAL_MS == 100
HONEY_PUBLISH_INTERVAL == 300000
MOTOR_STEPS_PER_REV == 200
MOTOR_45DEG_STEPS == (MOTOR_STEPS_PER_REV * 45) \div 360
COIN_ACCEPT == 0
COIN_REJECT == 1
MOTOR_RESET == 2
LCD_COLS == 16
LCD_ROWS == 2
PERIODIC_CHECK_MS == 250

(* Bounds of the model *)

MaxAdvances == 3      \* clock steps per run
MaxPulses == 3
MaxDecodePulses == 100
MaxRepublish == 2     \* publish intervals per run
MaxMotorActions == 1311
MaxPolls == 5

----------------------------------------------------------------------------
(* Fixed-width integer arithmetic.  A uint32_t is represented by the int32 *)
(* with the same bit pattern: 0 .. 2^31-1 by itself, 2^31 .. 2^32-1 by the   *)
(* negative number 2^32 less.  Casts between int and uint32_t are then the  *)
(* identity, + and - wrap around, and the order is the unsigned one.        *)

MaxInt32 == (2^30 - 1) + 2^30
MinInt32 == (0 - MaxInt32) - 1
TwoPow8 == 2^8

\* (uint8_t) n
U8(n) == n % TwoPow8

\* a + b on uint32_t
Add32(a, b) ==
  IF a >= 0 /\ b >= 0 /\ a > MaxInt32 - b THEN (a + MinInt32) + (b + MinInt32)
  ELSE IF a < 0 /\ b < 0 /\ a < MinInt32 - b THEN (a - MinInt32) + (b - MinInt32)
  ELSE a + b

\* -b and a - b on uint32_t
Neg32(b) == IF b = MinInt32 THEN b ELSE 0 - b
Sub32(a, b) == Add32(a, Neg32(b))

\* a < b, a >= b, a > b on uint32_t
ULt(a, b) == IF (a < 0) = (b < 0) THEN a < b ELSE a >= 0
UGe(a, b) == ~ULt(a, b)
UGt(a, b) == ULt(b, a)

\* bit `i` of n, for n >= 0
BitOf(n, i) == (n \div (2^i)) % 2

\* n | (1 << i)   and   n & ~(1 << i), for n >= 0
SetBitOf(n, i) == IF BitOf(n, i) = 1 THEN n ELSE n + 2^i
ClearBitOf(n, i) == IF BitOf(n, i) = 1 THEN n - 2^i ELSE n

----------------------------------------------------------------------------
(* C strings: sequences of one-character strings *)

DecDigits == <<"0", "1", "2", "3", "4", "5", "6", "7", "8", "9">>
HexDigits == <<"0", "1", "2", "3", "4", "5", "6", "7", "8", "9",
               "A", "B", "C", "D", "E", "F">>

IsDigit(c, base) == \E k \in 1..base : HexDigits[k] = c
DigitValue(c) == (CHOOSE k \in 1..16 : HexDigits[k] = c) - 1

\* "%lu" / "%d" of a non-negative number
RECURSIVE FormatDec(_)
FormatDec(n) ==
  IF n < 10 THEN <<DecDigits[n + 1]>>
  ELSE FormatDec(n \div 10) \o <<DecDigits[(n % 10) + 1]>>

\* "%02d" of a non-negative number
Format02d(n) == IF n < 10 THEN <<"0">> \o FormatDec(n) ELSE FormatDec(n)

RECURSIVE FormatHex(_)
FormatHex(n) ==
  IF n < 16 THEN <<HexDigits[n + 1]>>
  ELSE FormatHex(n \div 16) \o <<HexDigits[(n % 16) + 1]>>

RECURSIVE ZeroPad(_, _)
ZeroPad(s, width) == IF Len(s) >= width THEN s ELSE ZeroPad(<<"0">> \o s, width)

\* "%08lX"
Format08X(n) == ZeroPad(FormatHex(n), 8)

\* the text from position k on (ptr + k - 1)
From(s, k) == SubSeq(s, k, Len(s))

RECURSIVE SkipSpaces(_)
SkipSpaces(s) == IF s # <<>> /\ Head(s) = " " THEN SkipSpaces(Tail(s)) ELSE s

\* value of the leading run of digits of s, and whether there is one
RECURSIVE DigitRun(_, _, _)
DigitRun(s, base, acc) ==
  IF s # <<>> /\ IsDigit(Head(s), base)
  THEN DigitRun(Tail(s), base, acc * base + DigitValue(Head(s)))
  ELSE acc

\* strtoul(s, nullptr, base): leading blanks, an optional sign, the digits;
\* the result negated when signed "-".  Exact for texts whose digits stay
\* below 2^31, which all texts of this model do.
strtoul(s, base) ==
  LET t == SkipSpaces(s)
      neg == t # <<>> /\ Head(t) = "-"
      u == IF t # <<>> /\ Head(t) \in {"-", "+"} THEN Tail(t) ELSE t
      mag == DigitRun(u, base, 0)
  IN IF neg THEN Neg32(mag) ELSE mag

\* atoi(s), with the same domain
atoi(s) ==
  LET t == SkipSpaces(s)
      neg == t # <<>> /\ Head(t) = "-"
      u == IF t # <<>> /\ Head(t) \in {"-", "+"} THEN Tail(t) ELSE t
      mag == DigitRun(u, 10, 0)
  IN IF neg THEN 0 - mag ELSE mag

\* strchr(s, c): index of the first c in s, 0 for a null result
strchr(s, c) ==
  IF \E k \in 1..Len(s) : s[k] = c
  THEN CHOOSE k \in 1..Len(s) : s[k] = c /\ \A j \in 1..(k - 1) : s[j] # c
  ELSE 0

----------------------------------------------------------------------------
(* The machine state the driver's functions work on *)

BoxIndex == 0..(MAX_HONEY_BOX_COUNT - 1)
RegIndex == 0..(NUM_SHIFT_REGISTERS - 1)

\* the outputs of the chain: output j of chip k, chip 0 nearest the
\* controller, has index 8k + j
OutputIndex == 0..(NUM_SHIFT_REGISTERS * 8 - 1)

\* the chain at rest with every stage and every output at one level; the
\* stages and the outputs are sequences, output p at place p + 1; `pending`
\* are the pin writes of a chain write not yet made
ChainAt(level) ==
  [data |-> FALSE, clock |-> FALSE, latch |-> FALSE,
   stage |-> [p \in 1..(NUM_SHIFT_REGISTERS * 8) |-> level],
   out |-> [p \in 1..(NUM_SHIFT_REGISTERS * 8) |-> level],
   pending |-> <<>>]

\* the level of output p of the chain
Output(hw, p) == hw.out[p + 1]

\* memset(&vending, 0, sizeof(vending))
ZeroVending ==
  [ pulse_count |-> 0, last_pulse_ms |-> 0, first_pulse_ms |-> 0,
    total_cents |-> 0, last_coin_cents |-> 0, coins_detected |-> 0,
    honey_available |-> FALSE, initialized |-> FALSE,
    box_count |-> 0, selected_box_id |-> 0,
    box_status |-> [i \in BoxIndex |-> FALSE],
    box_price |-> [i \in BoxIndex |-> 0],
    box_last_changed |-> [i \in BoxIndex |-> 0],
    last_publish_ms |-> 0, discovery_sent |-> FALSE,
    shift_reg_state |-> [r \in RegIndex |-> 0],
    unlock_start_ms |-> 0, unlocked_box_id |-> 0,
    lcd_initialized |-> FALSE, mcp_initialized |-> FALSE,
    last_button_state |-> 0 ]

NoPayload == <<>>
NoRetained ==
  [ box |-> [b \in 1..MAX_HONEY_BOX_COUNT |-> NoPayload],
    summary |-> NoPayload, system |-> NoPayload,
    ha_box |-> [b \in 1..MAX_HONEY_BOX_COUNT |-> NoPayload],
    ha_available |-> NoPayload, ha_total |-> NoPayload ]

NoUnlock == [box |-> 0, ms |-> 0]
AllReleased == 65535
NoLog == [events |-> <<>>, fresh |-> FALSE, polled |-> AllReleased, net |-> 0,
          ran100 |-> <<>>, ran250 |-> <<>>, full |-> <<>>]
LcdRowIndex == 0..(LCD_ROWS - 1)
BlankLcd == [r \in LcdRowIndex |-> [c \in 1..LCD_COLS |-> " "]]
NoTrain == [sent |-> 0, last_edge_ms |-> 0, close |-> TRUE]
NoTick == [pc |-> "idle", now |-> 0, pulses |-> 0, accepted |-> 0, counted |-> 0]

Machine ==
  [ v |-> vending, settings |-> settings, response |-> response,
    connected |-> mqtt_connected, retained |-> retained,
    now |-> now, utc |-> utc_time, last_unlock |-> last_unlock,
    offset |-> motor_position_offset, lcd |-> lcd, gpio |-> mcp_gpio,
    hw |-> shift_hw,
    events |-> <<>> ]

\* console responses: the response buffer holds a JSON document, modelled as
\* the tuple of its name and fields
ResponseCmndError == <<"Error">>
ResponseCmndDone == <<"Done">>

SetV(m, field, value) == [m EXCEPT !.v = [m.v EXCEPT ![field] = value]]
SetResponse(m, r) == [m EXCEPT !.response = r]
SettingsUpdateText(m, index, text) == [m EXCEPT !.settings[index] = text]
SettingsText(m, index) == m.settings[index]

----------------------------------------------------------------------------
(* MQTT publishing *)

AvailableCount(v) == Cardinality({i \in 0..(v.box_count - 1) : v.box_status[i]})

\* the JSON documents, as tuples of their fields
BoxPayload(v, box_id) ==
  <<"box", box_id, v.box_status[box_id - 1], v.box_price[box_id - 1],
    v.box_last_changed[box_id - 1]>>

SummaryPayload(v) ==
  <<"summary", v.box_count, AvailableCount(v), v.box_count - AvailableCount(v)>>

SystemPayload(v) ==
  LET target_cents ==
        IF v.selected_box_id > 0 /\ v.selected_box_id <= v.box_count
        THEN v.box_price[v.selected_box_id - 1] ELSE 0
  IN <<"system", v.total_cents, target_cents, v.selected_box_id, v.coins_detected,
       v.honey_available, v.box_count>>

DiscoveryPayload(name) == <<"ha_config", name>>

\* what a callback did, in order: its calls of the host's MqttPublish with
\* topic, box number (0 for a topic without one), payload and whether the
\* broker was connected; its box-count changes and initialisations; the
\* solenoids it energised, the box statuses it stored, its motor actions,
\* display writes and button polls; the ticks that got past their throttle
Logged(m, event) == [m EXCEPT !.events = Append(@, event)]
PublishCall(m, topic, n) == <<"publish", topic, n, m.response, m.connected>>

\* MqttPublish(topic, true): the host sends the response buffer to the topic,
\* retained; without a connection nothing reaches the broker
MqttPublish(m, topic) ==
  Logged(IF m.connected THEN [m EXCEPT !.retained[topic] = m.response] ELSE m,
         PublishCall(m, topic, 0))
MqttPublishIndexed(m, topic, n) ==
  Logged(IF m.connected THEN [m EXCEPT !.retained[topic][n] = m.response] ELSE m,
         PublishCall(m, topic, n))

RECURSIVE PublishDiscoveryFrom(_, _)
PublishDiscoveryFrom(m, i) ==
  IF i > m.v.box_count THEN m
  ELSE PublishDiscoveryFrom(
         MqttPublishIndexed(SetResponse(m, DiscoveryPayload(i)), "ha_box", i), i + 1)

HoneyVending_PublishDiscovery(m) ==
  IF ~m.connected THEN m
  ELSE LET m1 == PublishDiscoveryFrom(m, 1)
           m2 == MqttPublish(SetResponse(m1, DiscoveryPayload(0)), "ha_available")
           m3 == MqttPublish(SetResponse(m2, DiscoveryPayload(0)), "ha_total")
       IN SetV(m3, "discovery_sent", TRUE)

RECURSIVE CleanupFrom(_, _, _)
CleanupFrom(m, i, old_count) ==
  IF i > old_count THEN m
  ELSE CleanupFrom(MqttPublishIndexed(m, "ha_box", i), i + 1, old_count)

HoneyVending_CleanupOldBoxes(m, old_count, new_count) ==
  IF new_count >= old_count THEN m
  ELSE IF ~m.connected THEN m
  ELSE CleanupFrom(m, new_count + 1, old_count)

HoneyVending_PublishBoxMQTT(m, box_id) ==
  IF box_id < 1 \/ box_id > m.v.box_count THEN m
  ELSE IF ~m.connected THEN m
  ELSE MqttPublishIndexed(SetResponse(m, BoxPayload(m.v, box_id)), "box", box_id)

RECURSIVE PublishBoxesFrom(_, _)
PublishBoxesFrom(m, i) ==
  IF i > m.v.box_count THEN m
  ELSE PublishBoxesFrom(HoneyVending_PublishBoxMQTT(m, i), i + 1)

HoneyVending_PublishAllBoxesMQTT(m) ==
  IF ~m.connected THEN m
  ELSE LET m1 == PublishBoxesFrom(m, 1)
           m2 == MqttPublish(SetResponse(m1, SummaryPayload(m1.v)), "summary")
       IN SetV(m2, "last_publish_ms", m2.now)

HoneyVending_PublishSystemMQTT(m) ==
  IF ~m.connected THEN m
  ELSE MqttPublish(SetResponse(m, SystemPayload(m.v)), "system")

----------------------------------------------------------------------------
(* Peripherals: stepper motor, LCD 1602, MCP23017 buttons *)

TwoPow16 == 2^16
\* (uint16_t) n and (int16_t) n
U16(n) == n % TwoPow16
I16(n) == ((n + 2^15) % TwoPow16) - 2^15

Motor_Init(m) == [m EXCEPT !.offset = 0]

\* Motor_Rotate: DIR is set, the driver is enabled, `steps` step pulses are
\* sent and the driver is disabled; with steps = 0 no pin is touched
Motor_Rotate(m, steps, clockwise) ==
  IF steps = 0 THEN m ELSE Logged(m, <<"rotate", steps, clockwise>>)

Motor_DoAction(m, action) ==
  LET m0 == Logged(m, <<"motor_action", action>>)
  IN IF action = COIN_ACCEPT
     THEN [Motor_Rotate(m0, MOTOR_45DEG_STEPS, FALSE)
             EXCEPT !.offset = I16(m0.offset - MOTOR_45DEG_STEPS)]
     ELSE IF action = COIN_REJECT
     THEN [Motor_Rotate(m0, MOTOR_45DEG_STEPS, TRUE)
             EXCEPT !.offset = I16(m0.offset + MOTOR_45DEG_STEPS)]
     ELSE IF action = MOTOR_RESET
     THEN IF m0.offset = 0 THEN m0
          ELSE LET go_left == m0.offset > 0
                   steps_back == U16(IF m0.offset < 0 THEN 0 - m0.offset
                                     ELSE m0.offset)
               IN [Motor_Rotate(m0, steps_back, ~go_left) EXCEPT !.offset = 0]
     ELSE m0

\* the end-of-string character
NUL == "NUL"
Spaces(n) == [i \in 1..n |-> " "]
Nuls(n) == [i \in 1..n |-> NUL]
Take(s, n) == IF Len(s) <= n THEN s ELSE SubSeq(s, 1, n)

\* strncpy(dest, src, n): the first n characters of src, filled up to n with
\* end-of-string characters when src is shorter, over the start of dest
strncpy(dest, src, n) ==
  (IF Len(src) >= n THEN SubSeq(src, 1, n) ELSE src \o Nuls(n - Len(src)))
    \o SubSeq(dest, n + 1, Len(dest))

\* the characters of a buffer up to its first end-of-string character
RECURSIVE CString(_)
CString(buf) ==
  IF buf = <<>> \/ Head(buf) = NUL THEN <<>> ELSE <<Head(buf)>> \o CString(Tail(buf))

\* lcd.setCursor(col, row); lcd.print(text): the display takes the
\* characters one by one from the cursor on
LcdPrint(m, row, col, text) ==
  Logged([m EXCEPT !.lcd[row] = [c \in 1..LCD_COLS |->
                     IF c > col /\ c <= col + Len(text) THEN text[c - col]
                     ELSE m.lcd[row][c]]],
         <<"lcd", row, col, text>>)

LCD_WriteText(m, row, col, text) ==
  IF ~m.v.lcd_initialized THEN m
  ELSE IF row >= LCD_ROWS \/ col >= LCD_COLS THEN m
  ELSE LET available == LCD_COLS - col
           filled == Spaces(LCD_COLS) \o <<NUL>>
           copied == strncpy(filled, text, available)
           padded == [copied EXCEPT ![available + 1] = NUL]
       IN LcdPrint(Logged(m, <<"lcd_write", row, col, text>>), row, col,
                   CString(padded))

LCD_Clear(m) ==
  IF ~m.v.lcd_initialized THEN m ELSE [m EXCEPT !.lcd = BlankLcd]

LCD_Init(m) ==
  LET m1 == SetV([m EXCEPT !.lcd = BlankLcd], "lcd_initialized", TRUE)
      m2 == LCD_WriteText(m1, 0, 0,
              <<" ", " ", "H", "o", "n", "e", "y", " ",
                "V", "e", "n", "d", "i", "n", "g", " ">>)
  IN LCD_WriteText(m2, 1, 0,
              <<" ", " ", " ", "S", "t", "a", "r", "t",
                "i", "n", "g", ".", ".", ".", " ", " ">>)

\* the bytes of the euro sign in the source file's encoding
EuroSign == <<"E2", "82", "AC">>

\* CentsToEuroString into a buffer of 16 characters
CentsToEuroString(cents) ==
  Take(EuroSign \o FormatDec(cents \div 100) \o <<".">> \o Format02d(cents % 100), 15)

\* snprintf(lcd_buf, sizeof(lcd_buf), "Total: %s", total_str)
TotalLine(total_str) ==
  Take(<<"T", "o", "t", "a", "l", ":", " ">> \o total_str, LCD_COLS)

\* snprintf(lcd_buf, sizeof(lcd_buf), "Button %d pressed ", button_number)
ButtonLine(button_number) ==
  Take(<<"B", "u", "t", "t", "o", "n", " ">> \o FormatDec(button_number)
         \o <<" ", "p", "r", "e", "s", "s", "e", "d", " ">>, LCD_COLS)

MCP23017_Init(m) ==
  SetV(SetV(m, "mcp_initialized", TRUE), "last_button_state", AllReleased)

\* MCP23017_ReadButtons: GPA in bits 0..7, GPB in bits 8..15
MCP23017_ReadButtons(m) ==
  IF ~m.v.mcp_initialized THEN AllReleased ELSE m.gpio

\* the loop over the 16 bits of newly_pressed in the tick
RECURSIVE ReportPressed(_, _, _)
ReportPressed(m, newly_pressed, i) ==
  IF i >= 16 THEN m
  ELSE ReportPressed(
         IF BitOf(newly_pressed, i) = 1
         THEN LCD_WriteText(Logged(m, <<"button", i + 1>>), 1, 0, ButtonLine(i + 1))
         ELSE m,
         newly_pressed, i + 1)

\* (~current_state) & vending.last_button_state
NewlyPressed(current_state, last_button_state) ==
  LET S == {i \in 0..15 : BitOf(current_state, i) = 0 /\ BitOf(last_button_state, i) = 1}
      RECURSIVE Sum(_)
      Sum(T) == IF T = {} THEN 0
                ELSE LET i == CHOOSE x \in T : TRUE IN 2^i + Sum(T \ {i})
  IN Sum(S)

\* a poll that never stores what it read
PollButtons_NoSave(m) ==
  IF ~m.v.mcp_initialized THEN m
  ELSE LET current_state == MCP23017_ReadButtons(m)
           m1 == Logged(m, <<"poll", current_state>>)
       IN ReportPressed(m1, NewlyPressed(current_state, m1.v.last_button_state), 0)

\* the button poll at the end of the 100 ms tick
PollButtons(m) ==
  IF ~m.v.mcp_initialized THEN m
  ELSE LET current_state == MCP23017_ReadButtons(m)
           m1 == Logged(m, <<"poll", current_state>>)
           m2 == ReportPressed(m1, NewlyPressed(current_state,
                                                m1.v.last_button_state), 0)
       IN SetV(m2, "last_button_state", current_state)

\* the loop of HoneyVending_PrintPressedButtons
RECURSIVE PrintPressed(_, _, _)
PrintPressed(m, state, i) ==
  IF i >= 16 THEN m
  ELSE PrintPressed(IF BitOf(state, i) = 0
                    THEN LCD_WriteText(m, 1, 0, ButtonLine(i + 1)) ELSE m,
                    state, i + 1)

HoneyVending_PrintPressedButtons(m) ==
  IF ~m.v.mcp_initialized THEN m
  ELSE PrintPressed(m, MCP23017_ReadButtons(m), 0)

----------------------------------------------------------------------------
(* Persistent storage *)

HoneyVending_SaveBoxCount(m) ==
  SettingsUpdateText(m, HONEY_BOX_COUNT_INDEX, <<"C">> \o Format02d(m.v.box_count))

HoneyVending_LoadBoxCount(m) ==
  LET stored == SettingsText(m, HONEY_BOX_COUNT_INDEX)
      count == U8(atoi(Tail(stored)))
  IN IF Len(stored) >= 3 /\ stored[1] = "C"
        /\ count >= 1 /\ count <= MAX_HONEY_BOX_COUNT
     THEN SetV(m, "box_count", count)
     ELSE HoneyVending_SaveBoxCount(SetV(m, "box_count", DEFAULT_HONEY_BOX_COUNT))

\* "a,b,c" for entries 0..count-1 of an array
RECURSIVE JoinDec(_, _, _)
JoinDec(arr, i, count) ==
  IF i >= count THEN <<>>
  ELSE (IF i > 0 THEN <<",">> ELSE <<>>) \o FormatDec(arr[i]) \o JoinDec(arr, i + 1, count)

\* a price change that is not written to the settings
HoneyVending_SavePrices_Skipped(m) == m

HoneyVending_SavePrices(m) ==
  SettingsUpdateText(m, HONEY_PRICE_INDEX,
                     <<"P", ":">> \o JoinDec(m.v.box_price, 0, m.v.box_count))

\* the parse loop of LoadPrices, from box i on, ptr the text still to read
RECURSIVE LoadPricesLoop(_, _, _, _)
LoadPricesLoop(ptr, i, box_price, count) ==
  IF i >= count THEN box_price
  ELSE LET price == strtoul(ptr, 10)
           bp == [box_price EXCEPT
                    ![i] = IF price # 0 THEN price ELSE DEFAULT_PRICE_CENTS]
           comma == strchr(ptr, ",")
       IN IF comma # 0
          THEN LoadPricesLoop(From(ptr, comma + 1), i + 1, bp, count)
          ELSE [j \in BoxIndex |->
                  IF j > i /\ j < count THEN DEFAULT_PRICE_CENTS ELSE bp[j]]

HoneyVending_LoadPrices(m) ==
  LET price_stored == SettingsText(m, HONEY_PRICE_INDEX)
  IN IF Len(price_stored) > 2 /\ price_stored[1] = "P" /\ price_stored[2] = ":"
     THEN SetV(m, "box_price",
               LoadPricesLoop(From(price_stored, 3), 0, m.v.box_price, m.v.box_count))
     ELSE HoneyVending_SavePrices(
            SetV(m, "box_price",
                 [j \in BoxIndex |-> IF j < m.v.box_count THEN DEFAULT_PRICE_CENTS
                                     ELSE m.v.box_price[j]]))

RECURSIVE PackStatus(_, _, _)
PackStatus(box_status, i, count) ==
  IF i >= count THEN 0
  ELSE (IF box_status[i] THEN 2^i ELSE 0) + PackStatus(box_status, i + 1, count)

HoneyVending_SaveStatus(m) ==
  LET packed == PackStatus(m.v.box_status, 0, m.v.box_count)
      m1 == SettingsUpdateText(m, HONEY_SETTINGS_INDEX, <<"H">> \o Format08X(packed))
  IN SettingsUpdateText(m1, HONEY_TIMESTAMP_INDEX,
                        <<"T", ":">> \o JoinDec(m.v.box_last_changed, 0, m.v.box_count))

\* the parse loop of the timestamps; entries after the last one read stay
RECURSIVE LoadTimestampsLoop(_, _, _, _)
LoadTimestampsLoop(ptr, i, changed, count) ==
  IF i >= count THEN changed
  ELSE LET ts == [changed EXCEPT ![i] = strtoul(ptr, 10)]
           comma == strchr(ptr, ",")
       IN IF comma # 0 THEN LoadTimestampsLoop(From(ptr, comma + 1), i + 1, ts, count)
          ELSE ts

HoneyVending_LoadStatus(m) ==
  LET stored == SettingsText(m, HONEY_SETTINGS_INDEX)
      count == m.v.box_count
      InCount(j) == j < count
  IN IF Len(stored) >= 5 /\ stored[1] = "H"
     THEN LET packed == strtoul(Tail(stored), 16)
              m1 == SetV(m, "box_status",
                         [j \in BoxIndex |-> IF InCount(j) THEN BitOf(packed, j) = 1
                                             ELSE m.v.box_status[j]])
              ts_stored == SettingsText(m, HONEY_TIMESTAMP_INDEX)
          IN IF Len(ts_stored) > 2 /\ ts_stored[1] = "T" /\ ts_stored[2] = ":"
             THEN SetV(m1, "box_last_changed",
                       LoadTimestampsLoop(From(ts_stored, 3), 0,
                                          m1.v.box_last_changed, count))
             ELSE SetV(m1, "box_last_changed",
                       [j \in BoxIndex |-> IF InCount(j) THEN 0
                                           ELSE m1.v.box_last_changed[j]])
     ELSE LET m1 == SetV(m, "box_status",
                         [j \in BoxIndex |-> IF InCount(j) THEN FALSE
                                             ELSE m.v.box_status[j]])
              m2 == SetV(m1, "box_last_changed",
                         [j \in BoxIndex |-> IF InCount(j) THEN 0
                                             ELSE m1.v.box_last_changed[j]])
          IN HoneyVending_SaveStatus(m2)

----------------------------------------------------------------------------
(* Shift register and solenoid locks *)

LockedPattern == IF SOLENOID_ACTIVE_HIGH THEN 0 ELSE 0 - 1

\* digitalWrite on one of the three pins, as the 74HC595 chain sees it: a
\* rising clock edge moves every stage one place away from the controller
\* and takes the data pin into stage 0 (QA of chip 0); a rising latch edge
\* copies the stages to the outputs
digitalWrite(hw, pin, level) ==
  IF pin = "clock"
  THEN [hw EXCEPT !.clock = level,
                  !.stage = IF level /\ ~hw.clock
                            THEN <<hw.data>> \o SubSeq(hw.stage, 1, Len(hw.stage) - 1)
                            ELSE @]
  ELSE IF pin = "latch"
  THEN [hw EXCEPT !.latch = level,
                  !.out = IF level /\ ~hw.latch THEN hw.stage ELSE @]
  ELSE [hw EXCEPT !.data = level]

\* the body of the inner loop of ShiftReg_Write for one bit
BitWrites(data, reg, bit) ==
  << <<"clock", FALSE>>, <<"data", BitOf(data[reg], bit) = 1>>, <<"clock", TRUE>> >>

\* a chain written with the low bit of every register first
RECURSIVE ShiftOut_LsbFirst(_, _, _)
ShiftOut_LsbFirst(data, reg, bit) ==
  IF reg < 0 THEN <<>>
  ELSE BitWrites(data, reg, 7 - bit)
         \o (IF bit = 0 THEN ShiftOut_LsbFirst(data, reg - 1, 7)
             ELSE ShiftOut_LsbFirst(data, reg, bit - 1))

\* for (reg = num_registers - 1 .. 0) for (bit = 7 .. 0)
RECURSIVE ShiftOut(_, _, _)
ShiftOut(data, reg, bit) ==
  IF reg < 0 THEN <<>>
  ELSE BitWrites(data, reg, bit)
         \o (IF bit = 0 THEN ShiftOut(data, reg - 1, 7)
             ELSE ShiftOut(data, reg, bit - 1))

\* the digitalWrite calls of ShiftReg_Write(data, num_registers), in order
PinWrites(data, num_registers) ==
  << <<"latch", FALSE>> >> \o ShiftOut(data, num_registers - 1, 7)
    \o << <<"latch", TRUE>>, <<"latch", FALSE>> >>

\* the chain after the given digitalWrite calls; the test of hw.clock is
\* never true, it makes TLC evaluate hw at every call instead of nesting a
\* hundred unevaluated ones
RECURSIVE DoWrites(_, _)
DoWrites(hw, writes) ==
  IF writes = <<>> \/ hw.clock \notin BOOLEAN THEN hw
  ELSE DoWrites(digitalWrite(hw, Head(writes)[1], Head(writes)[2]), Tail(writes))

ShiftReg_Write(m) ==
  [m EXCEPT !.hw = DoWrites(m.hw, PinWrites(m.v.shift_reg_state, NUM_SHIFT_REGISTERS))]

\* an initialisation that sets the mirror and does not write the chain
ShiftReg_Init_NoWrite(m) ==
  SetV(m, "shift_reg_state", [r \in RegIndex |-> LockedPattern])

ShiftReg_Init(m) ==
  ShiftReg_Write(SetV(m, "shift_reg_state", [r \in RegIndex |-> LockedPattern]))

\* the mirror after ShiftReg_SetBit's |= (1 << bit_index), &= ~(1 << bit_index)
MirrorWithBit(mirror, bit_position, state) ==
  LET register_index == bit_position \div 8
      bit_index == bit_position % 8
      old == mirror[register_index]
  IN [mirror EXCEPT ![register_index] = IF state THEN SetBitOf(old, bit_index)
                                        ELSE ClearBitOf(old, bit_index)]

ShiftReg_SetBit(m, bit_position, state) ==
  IF bit_position >= NUM_SHIFT_REGISTERS * 8 THEN m
  ELSE ShiftReg_Write(
         SetV(m, "shift_reg_state",
              MirrorWithBit(m.v.shift_reg_state, bit_position, state)))

LockBoxKey(m, box_id) ==
  IF box_id < 1 \/ box_id > m.v.box_count THEN m
  ELSE LET m1 == ShiftReg_SetBit(m, box_id - 1, ~SOLENOID_ACTIVE_HIGH)
       IN IF m1.v.unlocked_box_id = box_id
          THEN SetV(SetV(m1, "unlocked_box_id", 0), "unlock_start_ms", 0)
          ELSE m1

UnlockBoxKey(m, box_id) ==
  IF box_id < 1 \/ box_id > m.v.box_count THEN m
  ELSE IF box_id > NUM_SHIFT_REGISTERS * 8 THEN m
  ELSE LET m1 == IF m.v.unlocked_box_id > 0 THEN LockBoxKey(m, m.v.unlocked_box_id)
                 ELSE m
           m2 == ShiftReg_SetBit(m1, box_id - 1, SOLENOID_ACTIVE_HIGH)
           m3 == SetV(SetV(m2, "unlocked_box_id", box_id), "unlock_start_ms", m2.now)
       IN Logged([m3 EXCEPT !.last_unlock = [box |-> box_id, ms |-> m3.now]],
                 <<"unlock", box_id>>)

LockAllBoxes(m) ==
  LET m1 == ShiftReg_Write(
              SetV(m, "shift_reg_state", [r \in RegIndex |-> LockedPattern]))
  IN SetV(SetV(m1, "unlocked_box_id", 0), "unlock_start_ms", 0)

\* the comparison one millisecond early
UnlockTimeoutReached_OneEarly(elapsed) == UGe(elapsed, UNLOCK_DURATION_MS - 1)

UnlockTimeoutReached(elapsed) == UGe(elapsed, UNLOCK_DURATION_MS)

CheckUnlockTimeout(m) ==
  IF m.v.unlocked_box_id > 0
     /\ UnlockTimeoutReached(Sub32(m.now, m.v.unlock_start_ms))
  THEN LockBoxKey(m, m.v.unlocked_box_id)
  ELSE m

----------------------------------------------------------------------------
(* Box inventory and pricing *)

InRange(v, box_id) == box_id >= 1 /\ box_id <= v.box_count

\* a count change that forgets to initialise the price of the new boxes
HoneyVending_SetBoxCount_StalePrice(m, count) ==
  IF count < 1 \/ count > MAX_HONEY_BOX_COUNT THEN m
  ELSE LET old_count == m.v.box_count
           New(i) == i >= old_count /\ i < count
           v1 == [m.v EXCEPT
                    !.box_count = count,
                    !.box_status = [i \in BoxIndex |->
                                      IF New(i) THEN FALSE ELSE m.v.box_status[i]],
                    !.box_last_changed = [i \in BoxIndex |->
                                      IF New(i) THEN m.utc ELSE m.v.box_last_changed[i]]]
       IN Logged(HoneyVending_SavePrices(
                   HoneyVending_SaveStatus(
                     HoneyVending_SaveBoxCount([m EXCEPT !.v = v1]))),
                 <<"box_count", count>>)

\* a box-count change that brings retired boxes back as they were
HoneyVending_SetBoxCount_Restores(m, count) ==
  IF count < 1 \/ count > MAX_HONEY_BOX_COUNT THEN m
  ELSE LET old_count == m.v.box_count
           m1 == HoneyVending_SavePrices(
                   HoneyVending_SaveStatus(
                     HoneyVending_SaveBoxCount(SetV(m, "box_count", count))))
           m2 == Logged(SetV(m1, "discovery_sent", FALSE), <<"box_count", count>>)
       IN IF m2.connected
          THEN HoneyVending_PublishSystemMQTT(
                 HoneyVending_PublishAllBoxesMQTT(
                   HoneyVending_PublishDiscovery(
                     HoneyVending_CleanupOldBoxes(m2, old_count, count))))
          ELSE m2

HoneyVending_SetBoxCount(m, count) ==
  IF count < 1 \/ count > MAX_HONEY_BOX_COUNT THEN m
  ELSE LET old_count == m.v.box_count
           New(i) == i >= old_count /\ i < count
           v1 == [m.v EXCEPT
                    !.box_count = count,
                    !.box_status = [i \in BoxIndex |->
                                      IF New(i) THEN FALSE ELSE m.v.box_status[i]],
                    !.box_last_changed = [i \in BoxIndex |->
                                      IF New(i) THEN m.utc ELSE m.v.box_last_changed[i]],
                    !.box_price = [i \in BoxIndex |->
                                      IF New(i) THEN DEFAULT_PRICE_CENTS
                                      ELSE m.v.box_price[i]]]
           m1 == HoneyVending_SavePrices(
                   HoneyVending_SaveStatus(
                     HoneyVending_SaveBoxCount([m EXCEPT !.v = v1])))
           m2 == Logged(SetV(m1, "discovery_sent", FALSE), <<"box_count", count>>)
       IN IF m2.connected
          THEN HoneyVending_PublishSystemMQTT(
                 HoneyVending_PublishAllBoxesMQTT(
                   HoneyVending_PublishDiscovery(
                     HoneyVending_CleanupOldBoxes(m2, old_count, count))))
          ELSE m2

HoneyVending_SetStatus(m, box_id, has_honey) ==
  IF ~InRange(m.v, box_id) THEN m
  ELSE LET v1 == [m.v EXCEPT !.box_status[box_id - 1] = has_honey,
                             !.box_last_changed[box_id - 1] = m.utc]
           m1 == Logged(HoneyVending_SaveStatus([m EXCEPT !.v = v1]),
                        <<"status", box_id, has_honey>>)
           m2 == HoneyVending_PublishBoxMQTT(m1, box_id)
           m3 == SetResponse(m2, SummaryPayload(m2.v))
       IN MqttPublish(m3, "summary")

\* the check without its upper bound
PriceAccepted_NoUpperBound(price_cents) == ~ULt(price_cents, MIN_PRICE_CENTS)

PriceAccepted(price_cents) ==
  ~(ULt(price_cents, MIN_PRICE_CENTS) \/ UGt(price_cents, MAX_PRICE_CENTS))

\* a price change that is stored and not published
HoneyVending_SetPrice_Unpublished(m, box_id, price_cents) ==
  IF ~InRange(m.v, box_id) THEN m
  ELSE IF ~PriceAccepted(price_cents) THEN m
  ELSE HoneyVending_SavePrices([m EXCEPT !.v.box_price[box_id - 1] = price_cents])

HoneyVending_SetPrice(m, box_id, price_cents) ==
  IF ~InRange(m.v, box_id) THEN m
  ELSE IF ~PriceAccepted(price_cents) THEN m
  ELSE LET m1 == [m EXCEPT !.v.box_price[box_id - 1] = price_cents]
       IN HoneyVending_PublishBoxMQTT(HoneyVending_SavePrices(m1), box_id)

HoneyVending_GetPrice(m, box_id) ==
  IF ~InRange(m.v, box_id) THEN DEFAULT_PRICE_CENTS ELSE m.v.box_price[box_id - 1]

HoneyVending_GetStatus(m, box_id) ==
  IF ~InRange(m.v, box_id) THEN FALSE ELSE m.v.box_status[box_id - 1]

HoneyVending_ToggleStatus(m, box_id) ==
  IF ~InRange(m.v, box_id) THEN m
  ELSE HoneyVending_SetStatus(m, box_id, ~m.v.box_status[box_id - 1])

\* a selection that keeps the money of the session before
HoneyVending_SelectBox_KeepsTotal(m, box_id) ==
  IF ~InRange(m.v, box_id) THEN m
  ELSE IF ~m.v.box_status[box_id - 1] THEN m
  ELSE LET v1 == [m.v EXCEPT !.selected_box_id = box_id, !.coins_detected = 0,
                             !.honey_available = FALSE]
       IN HoneyVending_PublishSystemMQTT([m EXCEPT !.v = v1])

HoneyVending_SelectBox(m, box_id) ==
  IF ~InRange(m.v, box_id) THEN m
  ELSE IF ~m.v.box_status[box_id - 1] THEN m
  ELSE LET v1 == [m.v EXCEPT !.selected_box_id = box_id, !.total_cents = 0,
                             !.coins_detected = 0, !.honey_available = FALSE]
       IN HoneyVending_PublishSystemMQTT([m EXCEPT !.v = v1])

----------------------------------------------------------------------------
(* Coin decoder and session controller *)

\* the decoder without its 20-pulse case
PulsesToCents_NoTwoEuro(pulses) ==
  CASE pulses = 1 -> 10
    [] pulses = 2 -> 20
    [] pulses = 5 -> 50
    [] pulses = 10 -> 100
    [] OTHER -> 0

PulsesToCents(pulses) ==
  CASE pulses = 1 -> 10
    [] pulses = 2 -> 20
    [] pulses = 5 -> 50
    [] pulses = 10 -> 100
    [] pulses = 20 -> 200
    [] OTHER -> 0

\* a handler that also books the pulse as a coin
HoneyVending_PulseISR_Books(m) ==
  IF m.v.pulse_count # 0 /\ ULt(Sub32(m.now, m.v.last_pulse_ms), PULSE_DEBOUNCE_MS)
  THEN m
  ELSE [m EXCEPT !.v = [m.v EXCEPT !.pulse_count = Add32(m.v.pulse_count, 1),
                                   !.last_pulse_ms = m.now,
                                   !.coins_detected = Add32(m.v.coins_detected, 1)]]

HoneyVending_PulseISR(m) ==
  IF m.v.pulse_count # 0 /\ ULt(Sub32(m.now, m.v.last_pulse_ms), PULSE_DEBOUNCE_MS)
  THEN m
  ELSE LET v1 == IF m.v.pulse_count = 0
                 THEN [m.v EXCEPT !.first_pulse_ms = m.now] ELSE m.v
       IN [m EXCEPT !.v = [v1 EXCEPT !.pulse_count = Add32(v1.pulse_count, 1),
                                     !.last_pulse_ms = m.now]]

CmndVendingReset(m) ==
  LET v1 == [m.v EXCEPT !.total_cents = 0, !.coins_detected = 0,
                        !.honey_available = FALSE, !.pulse_count = 0,
                        !.selected_box_id = 0]
  IN SetResponse(HoneyVending_PublishSystemMQTT([m EXCEPT !.v = v1]),
                 ResponseCmndDone)

\* a sale that leaves the session as it is
HoneyVending_HoneyAvailable_NoReset(m) ==
  IF m.v.selected_box_id > 0
  THEN LET m1 == UnlockBoxKey(m, m.v.selected_box_id)
           m2 == HoneyVending_PublishSystemMQTT(m1)
       IN HoneyVending_SetStatus(m2, m2.v.selected_box_id, FALSE)
  ELSE m

HoneyVending_HoneyAvailable(m) ==
  IF m.v.selected_box_id > 0
  THEN LET m1 == UnlockBoxKey(m, m.v.selected_box_id)
           m2 == HoneyVending_PublishSystemMQTT(m1)
           m3 == HoneyVending_SetStatus(m2, m2.v.selected_box_id, FALSE)
       IN CmndVendingReset(m3)
  ELSE m

\* the burst test of the tick, on the clock value the tick sampled
BurstTimedOut(v, sampled) ==
  v.pulse_count # 0 /\ UGe(Sub32(sampled, v.last_pulse_ms), COIN_TIMEOUT_MS)

\* a tick that books a burst whatever its value
CoinBurstComplete_BooksUnknown(m1, pulses) ==
  LET coin_value == PulsesToCents(pulses)
      v2 == [m1.v EXCEPT !.total_cents = Add32(@, coin_value),
                         !.last_coin_cents = coin_value,
                         !.coins_detected = Add32(@, 1)]
      m2 == HoneyVending_PublishSystemMQTT(
              LCD_WriteText([m1 EXCEPT !.v = v2], 1, 0,
                            TotalLine(CentsToEuroString(v2.total_cents))))
      m3 == IF m2.v.selected_box_id > 0 /\ ~m2.v.honey_available
               /\ UGe(m2.v.total_cents, m2.v.box_price[m2.v.selected_box_id - 1])
            THEN HoneyVending_HoneyAvailable(SetV(m2, "honey_available", TRUE))
            ELSE m2
      m4 == m3
  IN SetV(m4, "pulse_count", 0)

\* the tick's handling of a finished burst of `pulses` pulses, up to and
\* including the reset of the pulse counter; m1 is the state it started from
CoinBurstComplete(m1, pulses) ==
  LET coin_value == PulsesToCents(pulses)
      v2 == [m1.v EXCEPT !.total_cents = Add32(@, coin_value),
                         !.last_coin_cents = coin_value,
                         !.coins_detected = Add32(@, 1)]
      m2 == HoneyVending_PublishSystemMQTT(
              LCD_WriteText([m1 EXCEPT !.v = v2], 1, 0,
                            TotalLine(CentsToEuroString(v2.total_cents))))
      m3 == IF m2.v.selected_box_id > 0 /\ ~m2.v.honey_available
               /\ UGe(m2.v.total_cents, m2.v.box_price[m2.v.selected_box_id - 1])
            THEN HoneyVending_HoneyAvailable(SetV(m2, "honey_available", TRUE))
            ELSE m2
      m4 == IF coin_value > 0 THEN m3 ELSE m1
  IN SetV(m4, "pulse_count", 0)

\* the body of the 100 ms tick once the throttle has let it through
Every100msBody(m) ==
  LET m1 == CheckUnlockTimeout(Logged(m, <<"tick100", m.now>>))
  IN PollButtons(IF BurstTimedOut(m1.v, m1.now)
                 THEN CoinBurstComplete(m1, m1.v.pulse_count)
                 ELSE m1)

HoneyVending_Init(m) ==
  LET m0 == Logged([m EXCEPT !.v = [ZeroVending EXCEPT !.initialized = TRUE]],
                   <<"init">>)
      m1 == ShiftReg_Init(
              HoneyVending_LoadPrices(
                HoneyVending_LoadStatus(HoneyVending_LoadBoxCount(m0))))
  IN MCP23017_Init(LCD_Init(Motor_Init(m1)))

----------------------------------------------------------------------------
(* Console commands: `data` is XdrvMailbox.data, data_len its length *)

\* the text before and after the first blank of data
BeforeSpace(data) == SubSeq(data, 1, strchr(data, " ") - 1)
AfterSpace(data) == From(data, strchr(data, " ") + 1)

BoxCountResponse(m) == <<"BoxCount", m.v.box_count, MAX_HONEY_BOX_COUNT>>

CmndVendingBoxCount(m, data) ==
  IF Len(data) > 0
  THEN LET new_count == U8(atoi(data))
       IN IF new_count >= 1 /\ new_count <= MAX_HONEY_BOX_COUNT
          THEN LET m1 == HoneyVending_SetBoxCount(m, new_count)
               IN SetResponse(m1, BoxCountResponse(m1))
          ELSE SetResponse(m, ResponseCmndError)
  ELSE SetResponse(m, BoxCountResponse(m))

CmndVendingToggle(m, data) ==
  LET box_id == U8(atoi(data))
  IN IF Len(data) > 0 /\ box_id >= 1 /\ box_id <= m.v.box_count
     THEN LET m1 == HoneyVending_ToggleStatus(m, box_id)
          IN SetResponse(m1, <<"Toggle", box_id, HoneyVending_GetStatus(m1, box_id),
                               HoneyVending_GetPrice(m1, box_id),
                               m1.v.box_last_changed[box_id - 1]>>)
     ELSE SetResponse(m, ResponseCmndError)

CmndVendingSet(m, data) ==
  IF Len(data) > 0 /\ strchr(data, " ") # 0
  THEN LET box_id == U8(atoi(BeforeSpace(data)))
           status == U8(atoi(AfterSpace(data)))
       IN IF box_id >= 1 /\ box_id <= m.v.box_count
          THEN SetResponse(HoneyVending_SetStatus(m, box_id, status # 0),
                           ResponseCmndDone)
          ELSE SetResponse(m, ResponseCmndError)
  ELSE SetResponse(m, ResponseCmndError)

CmndVendingSetPrice(m, data) ==
  IF Len(data) > 0 /\ strchr(data, " ") # 0
  THEN LET box_id == U8(atoi(BeforeSpace(data)))
           price_cents == atoi(AfterSpace(data))
       IN IF box_id >= 1 /\ box_id <= m.v.box_count
          THEN SetResponse(HoneyVending_SetPrice(m, box_id, price_cents),
                           <<"SetPrice", box_id, price_cents>>)
          ELSE SetResponse(m, ResponseCmndError)
  ELSE SetResponse(m, ResponseCmndError)

Deselect(m) ==
  LET v1 == [m.v EXCEPT !.selected_box_id = 0, !.total_cents = 0,
                        !.coins_detected = 0, !.honey_available = FALSE]
  IN SetResponse([m EXCEPT !.v = v1], <<"Deselected">>)

CmndVendingSelectBox(m, data) ==
  LET box_id == U8(atoi(data))
  IN IF Len(data) > 0 /\ box_id >= 1 /\ box_id <= m.v.box_count
     THEN IF m.v.box_status[box_id - 1]
          THEN LET m1 == HoneyVending_SelectBox(m, box_id)
               IN SetResponse(m1, <<"SelectedBox", box_id,
                                    HoneyVending_GetPrice(m1, box_id)>>)
          ELSE SetResponse(m, <<"BoxEmpty", box_id>>)
     ELSE Deselect(m)

CmndVendingTest(m, data) ==
  LET test_pulses == atoi(data)
  IN IF Len(data) > 0 /\ test_pulses # 0
     THEN LET v1 == [m.v EXCEPT
                       !.pulse_count = test_pulses,
                       !.last_pulse_ms = Sub32(Sub32(m.now, COIN_TIMEOUT_MS), 100)]
          IN SetResponse([m EXCEPT !.v = v1], ResponseCmndDone)
     ELSE SetResponse(m, ResponseCmndError)

SetAllStatus(m, has_honey) ==
  LET InCount(i) == i < m.v.box_count
      v1 == [m.v EXCEPT
               !.box_status = [i \in BoxIndex |->
                                 IF InCount(i) THEN has_honey ELSE m.v.box_status[i]],
               !.box_last_changed = [i \in BoxIndex |->
                                 IF InCount(i) THEN m.utc ELSE m.v.box_last_changed[i]]]
  IN SetResponse(
       HoneyVending_PublishAllBoxesMQTT(HoneyVending_SaveStatus([m EXCEPT !.v = v1])),
       ResponseCmndDone)

CmndVendingClearAll(m) == SetAllStatus(m, FALSE)
CmndVendingFillAll(m) == SetAllStatus(m, TRUE)

CmndVendingPublish(m) ==
  SetResponse(HoneyVending_PublishSystemMQTT(HoneyVending_PublishAllBoxesMQTT(m)),
              ResponseCmndDone)

CmndVendingUnlock(m, data) ==
  LET box_id == U8(atoi(data))
  IN IF Len(data) > 0 /\ box_id >= 1 /\ box_id <= m.v.box_count
     THEN SetResponse(UnlockBoxKey(m, box_id),
                      <<"Unlocked", box_id, UNLOCK_DURATION_MS>>)
     ELSE SetResponse(m, ResponseCmndError)

CmndVendingLock(m, data) ==
  LET box_id == U8(atoi(data))
  IN IF Len(data) > 0 /\ box_id >= 1 /\ box_id <= m.v.box_count
     THEN LET m1 == LockBoxKey(m, box_id)
          IN SetResponse([m1 EXCEPT !.last_unlock =
                                      IF @.box = box_id THEN NoUnlock ELSE @],
                         <<"Locked", box_id>>)
     ELSE SetResponse(m, ResponseCmndError)

CmndVendingLockAll(m) ==
  SetResponse([LockAllBoxes(m) EXCEPT !.last_unlock = NoUnlock],
              <<"AllLocked", m.v.box_count>>)

LowerCase == <<"a", "b", "c", "d", "e", "f", "g", "h", "i", "j", "k", "l", "m",
               "n", "o", "p", "q", "r", "s", "t", "u", "v", "w", "x", "y", "z">>
UpperCase == <<"A", "B", "C", "D", "E", "F", "G", "H", "I", "J", "K", "L", "M",
               "N", "O", "P", "Q", "R", "S", "T", "U", "V", "W", "X", "Y", "Z">>
ToLower(c) == IF \E k \in 1..26 : UpperCase[k] = c
              THEN LowerCase[CHOOSE k \in 1..26 : UpperCase[k] = c] ELSE c

\* strcasecmp(a, b) == 0
SameIgnoringCase(a, b) ==
  Len(a) = Len(b) /\ \A k \in 1..Len(a) : ToLower(a[k]) = ToLower(b[k])

CoinAcceptText == <<"C", "O", "I", "N", "_", "A", "C", "C", "E", "P", "T">>
CoinRejectText == <<"C", "O", "I", "N", "_", "R", "E", "J", "E", "C", "T">>
ResetText == <<"R", "E", "S", "E", "T">>

CmndVendingMotor(m, data) ==
  IF Len(data) > 0 /\ SameIgnoringCase(data, CoinAcceptText)
  THEN LET m1 == Motor_DoAction(m, COIN_ACCEPT)
       IN SetResponse(m1, <<"Motor", "COIN_ACCEPT", MOTOR_45DEG_STEPS, m1.offset>>)
  ELSE IF Len(data) > 0 /\ SameIgnoringCase(data, CoinRejectText)
  THEN LET m1 == Motor_DoAction(m, COIN_REJECT)
       IN SetResponse(m1, <<"Motor", "COIN_REJECT", MOTOR_45DEG_STEPS, m1.offset>>)
  ELSE IF Len(data) > 0 /\ SameIgnoringCase(data, ResetText)
  THEN LET m1 == Motor_DoAction(m, MOTOR_RESET)
       IN SetResponse(m1, <<"Motor", "RESET", 0, m1.offset>>)
  ELSE SetResponse(m, <<"MotorUsage">>)

CmndVendingLCDWrite(m, data) ==
  IF Len(data) > 0 /\ strchr(data, " ") # 0
                  /\ U8(atoi(BeforeSpace(data))) < LCD_ROWS
  THEN LET row == U8(atoi(BeforeSpace(data)))
           text == AfterSpace(data)
       IN SetResponse(LCD_WriteText(m, row, 0, text), <<"LCD", row, text>>)
  ELSE SetResponse(m, <<"LCDUsage">>)

CmndVendingLCDClear(m) == SetResponse(LCD_Clear(m), ResponseCmndDone)

CmndVendingButtons(m) ==
  SetResponse(HoneyVending_PrintPressedButtons(m),
              <<"Buttons", MCP23017_ReadButtons(m)>>)

\* a notification that publishes discovery whatever the flag says
HoneyVending_MqttConnected_Always(m) ==
  IF ~m.v.initialized THEN m
  ELSE HoneyVending_PublishSystemMQTT(
         HoneyVending_PublishAllBoxesMQTT(HoneyVending_PublishDiscovery(m)))

HoneyVending_MqttConnected(m) ==
  IF ~m.v.initialized THEN m
  ELSE LET m1 == IF ~m.v.discovery_sent THEN HoneyVending_PublishDiscovery(m) ELSE m
       IN HoneyVending_PublishSystemMQTT(HoneyVending_PublishAllBoxesMQTT(m1))

\* a periodic tick that republishes whenever it runs
PublishDue_Always(elapsed) == TRUE

\* if ((now - vending.last_publish_ms) >= HONEY_PUBLISH_INTERVAL)
PublishDue(elapsed) == UGe(elapsed, HONEY_PUBLISH_INTERVAL)

\* the part of HoneyVending_Every250ms after its guards and throttle
HoneyVending_Every250ms(m) ==
  LET m0 == Logged(m, <<"tick250", m.now>>)
  IN IF PublishDue(Sub32(m0.now, m0.v.last_publish_ms))
     THEN HoneyVending_PublishSystemMQTT(HoneyVending_PublishAllBoxesMQTT(m0))
     ELSE m0

----------------------------------------------------------------------------
(* Host callbacks as actions *)

env_vars == <<mqtt_connected, now, utc_time, last_check, last_periodic_check, mcp_gpio, train,
              tick, advances>>

\* discovery is fresh after a callback if its last box-count change or
\* initialisation, if any, was followed by a discovery publish that reached
\* the broker
RECURSIVE Fresh(_, _)
Fresh(fresh, events) ==
  IF events = <<>> THEN fresh
  ELSE LET e == Head(events)
       IN Fresh(IF e[1] \in {"box_count", "init"} THEN FALSE
                ELSE IF e[1] = "publish" /\ e[2] = "ha_box" /\ e[5] THEN TRUE
                ELSE fresh,
                Tail(events))

\* the pin levels the latest button poll read; none since an initialisation
\* counts as all released
RECURSIVE Polled(_, _)
Polled(polled, events) ==
  IF events = <<>> THEN polled
  ELSE LET e == Head(events)
       IN Polled(IF e[1] = "init" THEN AllReleased
                 ELSE IF e[1] = "poll" THEN e[2]
                 ELSE polled,
                 Tail(events))

\* rejects less accepts among the motor actions since the last reset or
\* initialisation
RECURSIVE NetActions(_, _)
NetActions(net, events) ==
  IF events = <<>> THEN net
  ELSE LET e == Head(events)
       IN NetActions(IF e[1] = "init" THEN 0
                     ELSE IF e[1] # "motor_action" THEN net
                     ELSE IF e[2] = COIN_ACCEPT THEN net - 1
                     ELSE IF e[2] = COIN_REJECT THEN net + 1
                     ELSE 0,
                     Tail(events))

\* the clock value at which a tick last got past its throttle: <<t>>, or <<>>
\* while it never has
RECURSIVE Ran(_, _, _)
Ran(ran, events, kind) ==
  IF events = <<>> THEN ran
  ELSE LET e == Head(events)
       IN Ran(IF e[1] = kind THEN <<e[2]>> ELSE ran, Tail(events), kind)

\* the callback sent every box topic 1..count and the summary to the broker
FullPublish(events, count) ==
  /\ \A n \in 1..count :
       \E k \in 1..Len(events) :
         /\ events[k][1] = "publish"
         /\ events[k][2] = "box"
         /\ events[k][3] = n
         /\ events[k][5]
  /\ \E k \in 1..Len(events) :
       /\ events[k][1] = "publish"
       /\ events[k][2] = "summary"
       /\ events[k][5]

\* a tick that never holds back
Throttled_Never(elapsed, interval) == FALSE

\* if (now - last_check < interval) return;
Throttled(elapsed, interval) == ULt(elapsed, interval)

\* the state a driver function leaves behind
Apply(m) ==
  /\ vending' = m.v
  /\ settings' = m.settings
  /\ response' = m.response
  /\ retained' = m.retained
  /\ last_unlock' = m.last_unlock
  /\ motor_position_offset' = m.offset
  /\ lcd' = m.lcd
  /\ shift_hw' = m.hw
  /\ host_log' = [events |-> m.events, fresh |-> Fresh(host_log.fresh, m.events),
                  polled |-> Polled(host_log.polled, m.events),
                  net |-> NetActions(host_log.net, m.events),
                  ran100 |-> Ran(host_log.ran100, m.events, "tick100"),
                  ran250 |-> Ran(host_log.ran250, m.events, "tick250"),
                  full |-> IF FullPublish(m.events, m.v.box_count)
                           THEN <<m.now>> ELSE host_log.full]

\* FUNC_INIT
FuncInit ==
  /\ Apply([HoneyVending_Init(Machine) EXCEPT !.last_unlock = NoUnlock])
  /\ UNCHANGED env_vars

\* FUNC_EVERY_100_MSECOND
Every100ms ==
  IF ~vending.initialized \/ Throttled(Sub32(now, last_check), TICK_INTERVAL_MS)
  THEN UNCHANGED vars
  ELSE /\ last_check' = now
       /\ Apply(Every100msBody(Machine))
       /\ UNCHANGED <<mqtt_connected, now, utc_time, last_periodic_check, mcp_gpio, train,
                      tick, advances>>

\* FUNC_EVERY_250_MSECOND
Every250ms ==
  IF ~vending.initialized \/ ~mqtt_connected
       \/ Throttled(Sub32(now, last_periodic_check), PERIODIC_CHECK_MS)
  THEN UNCHANGED vars
  ELSE /\ last_periodic_check' = now
       /\ Apply(HoneyVending_Every250ms(Machine))
       /\ UNCHANGED <<mqtt_connected, now, utc_time, last_check, mcp_gpio, train,
                      tick, advances>>

\* FUNC_MQTT_INIT: the host reports the broker connection
MqttConnected ==
  /\ mqtt_connected' = TRUE
  /\ Apply(HoneyVending_MqttConnected([Machine EXCEPT !.connected = TRUE]))
  /\ UNCHANGED <<now, utc_time, last_check, last_periodic_check, mcp_gpio, train, tick, advances>>

MqttDisconnected ==
  /\ mqtt_connected
  /\ mqtt_connected' = FALSE
  /\ UNCHANGED <<vending, settings, response, retained, now, utc_time, last_check, last_periodic_check, mcp_gpio,
                 last_unlock, host_log, motor_position_offset, lcd, shift_hw, train, tick, advances>>

\* FUNC_COMMAND, one action per console command
VendingBoxCount(data) == Apply(CmndVendingBoxCount(Machine, data)) /\ UNCHANGED env_vars
VendingToggle(data) == Apply(CmndVendingToggle(Machine, data)) /\ UNCHANGED env_vars
VendingSet(data) == Apply(CmndVendingSet(Machine, data)) /\ UNCHANGED env_vars
VendingSetPrice(data) == Apply(CmndVendingSetPrice(Machine, data)) /\ UNCHANGED env_vars
VendingSelectBox(data) == Apply(CmndVendingSelectBox(Machine, data)) /\ UNCHANGED env_vars
VendingUnlock(data) == Apply(CmndVendingUnlock(Machine, data)) /\ UNCHANGED env_vars
VendingLock(data) == Apply(CmndVendingLock(Machine, data)) /\ UNCHANGED env_vars
VendingLockAll == Apply(CmndVendingLockAll(Machine)) /\ UNCHANGED env_vars
VendingReset == Apply(CmndVendingReset(Machine)) /\ UNCHANGED env_vars
VendingClearAll == Apply(CmndVendingClearAll(Machine)) /\ UNCHANGED env_vars
VendingFillAll == Apply(CmndVendingFillAll(Machine)) /\ UNCHANGED env_vars
VendingPublish == Apply(CmndVendingPublish(Machine)) /\ UNCHANGED env_vars
VendingMotor(data) == Apply(CmndVendingMotor(Machine, data)) /\ UNCHANGED env_vars
VendingLCDWrite(data) == Apply(CmndVendingLCDWrite(Machine, data)) /\ UNCHANGED env_vars
VendingLCDClear == Apply(CmndVendingLCDClear(Machine)) /\ UNCHANGED env_vars
\* LCD_WriteText called with the given position and text
LcdWrite(row, col, text) ==
  Apply(LCD_WriteText(Machine, row, col, text)) /\ UNCHANGED env_vars

VendingButtons == Apply(CmndVendingButtons(Machine)) /\ UNCHANGED env_vars

\* buttons are pressed and released: the pin levels become g
ButtonsChange(g) ==
  /\ mcp_gpio # g
  /\ mcp_gpio' = g
  /\ UNCHANGED <<vending, settings, response, mqtt_connected, retained, now,
                 utc_time, last_check, last_periodic_check, last_unlock, host_log,
                 motor_position_offset, lcd, shift_hw, train, tick, advances>>

\* VendingTest plants a pulse count that no pulse train produced
VendingTest(data) ==
  /\ Apply(CmndVendingTest(Machine, data))
  /\ train' = [train EXCEPT !.close = FALSE]
  /\ UNCHANGED <<mqtt_connected, now, utc_time, last_check, last_periodic_check, mcp_gpio, tick, advances>>

\* a falling edge on the coin pin runs the interrupt handler; `train` records
\* the edges of the current burst and whether each came less than the
\* debounce time after the edge before it
PulseEdge ==
  /\ vending.pulse_count = 0 \/ train.sent < MaxPulses
  /\ Apply(HoneyVending_PulseISR(Machine))
  /\ train' = IF vending.pulse_count = 0
              THEN [sent |-> 1, last_edge_ms |-> now, close |-> TRUE]
              ELSE [sent |-> train.sent + 1, last_edge_ms |-> now,
                    close |-> train.close
                              /\ ULt(Sub32(now, train.last_edge_ms), PULSE_DEBOUNCE_MS)]
  /\ UNCHANGED <<mqtt_connected, now, utc_time, last_check, last_periodic_check, mcp_gpio, tick, advances>>

\* the clock moves on by d ms
Advance(d) ==
  /\ advances < MaxAdvances
  /\ now' = Add32(now, d)
  /\ advances' = advances + 1
  /\ UNCHANGED <<vending, settings, response, mqtt_connected, retained, utc_time,
                 last_check, last_periodic_check, mcp_gpio, last_unlock, host_log, motor_position_offset, lcd, shift_hw, train, tick>>

\* the clock moves on by d ms
Elapse(d) ==
  /\ now' = Add32(now, d)
  /\ UNCHANGED <<vending, settings, response, mqtt_connected, retained, utc_time,
                 last_check, last_periodic_check, mcp_gpio, last_unlock, host_log,
                 motor_position_offset, lcd, shift_hw, train, tick, advances>>

----------------
(* Initial states: the machine after boot and FUNC_INIT, for given contents *)
(* of the four settings slots                                              *)

UtcTimes == {1000}

Boot(slots, BootUtc) ==
  LET m0 == [ v |-> ZeroVending, settings |-> slots, response |-> <<>>,
              connected |-> FALSE, retained |-> NoRetained,
              now |-> 0, utc |-> BootUtc, last_unlock |-> NoUnlock,
      offset |-> 0, lcd |-> BlankLcd, gpio |-> AllReleased,
      hw |-> ChainAt(FALSE),
      events |-> <<>> ]
      m == HoneyVending_Init(m0)
  IN /\ vending = m.v
     /\ settings = m.settings
     /\ response = m.response
     /\ retained = m.retained
     /\ last_unlock = m.last_unlock
     /\ host_log = NoLog
     /\ motor_position_offset = m.offset
     /\ lcd = m.lcd
     /\ shift_hw = m.hw
     /\ mcp_gpio = AllReleased
     /\ mqtt_connected = FALSE
     /\ now = 0
     /\ utc_time = BootUtc
     /\ last_check = 0
     /\ last_periodic_check = 0
     /\ train = NoTrain
     /\ tick = NoTick
     /\ advances = 0

Slots(status, timestamps, count, prices) ==
  (HONEY_SETTINGS_INDEX :> status) @@ (HONEY_TIMESTAMP_INDEX :> timestamps)
    @@ (HONEY_BOX_COUNT_INDEX :> count) @@ (HONEY_PRICE_INDEX :> prices)

Text(n) == FormatDec(n)
Text2(a, b) == FormatDec(a) \o <<" ">> \o FormatDec(b)

----------------------------------------------------------------------------
(* Specification of the lock controller: unlock, lock, box-count changes   *)
(* and the auto-relock timeout                                             *)

LockSlots ==
  { Slots(<<"H", "0", "0", "0", "0", "0", "0", "0", "7">>, <<"T", ":", "0">>,
          <<"C", "0", "3">>, <<"P", ":", "1", "0", ",", "5", "0", "0", ",", "1", "0">>) }

LockBoxes == {Text(1), Text(3)}
LockCounts == {Text(2), Text(3)}
LockSteps == {1, TICK_INTERVAL_MS, UNLOCK_DURATION_MS - TICK_INTERVAL_MS - 1}

InitLock == \E slots \in LockSlots, utc \in UtcTimes : Boot(slots, utc)

NextLock ==
  \/ \E d \in LockSteps : Advance(d)
  \/ Every100ms
  \/ \E data \in LockBoxes : VendingUnlock(data)
  \/ \E data \in LockBoxes : VendingLock(data)
  \/ VendingLockAll
  \/ \E data \in LockCounts : VendingBoxCount(data)
  \/ FuncInit

SpecLock == InitLock /\ [][NextLock]_vars

\* the lock output of box b is at the unlock polarity in struct v
BitUnlocked(v, b) ==
  (BitOf(v.shift_reg_state[(b - 1) \div 8], (b - 1) % 8) = 1) = SOLENOID_ACTIVE_HIGH

LockOutputs == 1..(NUM_SHIFT_REGISTERS * 8)
UnlockedOutputs(v) == {b \in LockOutputs : BitUnlocked(v, b)}

\* C1: in every reachable state at most one lock output of the mirror is at
\* the unlock polarity, and when one is, it is the output of unlocked_box_id
\* (so unlocking B while A is unlocked leaves only B unlocked).
C1_SingleUnlock ==
  /\ Cardinality(UnlockedOutputs(vending)) <= 1
  /\ UnlockedOutputs(vending) # {}
       => UnlockedOutputs(vending) = {vending.unlocked_box_id}

\* a tick has been evaluated at the present instant
TickEvaluatedNow == last_check = now /\ now # 0

\* C2: once a tick has been evaluated 60,000 ms or more after a box was
\* unlocked, that box's output is back at the locked polarity and
\* unlocked_box_id is 0, whatever happened in between.
C2_AutoRelock ==
  (/\ TickEvaluatedNow
   /\ last_unlock.box # 0
   /\ UGe(Sub32(now, last_unlock.ms), UNLOCK_DURATION_MS))
  => (~BitUnlocked(vending, last_unlock.box) /\ vending.unlocked_box_id = 0)

\* C3: less than 60,000 ms after the most recent unlock of a box, and with
\* no Lock of it, LockAll, INIT or unlock of another box since, the box is
\* still unlocked - at every tick and at every other instant; a second unlock
\* of the same box restarts the window.
C3_NoEarlyRelock ==
  (/\ last_unlock.box # 0
   /\ ULt(Sub32(now, last_unlock.ms), UNLOCK_DURATION_MS))
  => (/\ BitUnlocked(vending, last_unlock.box)
      /\ vending.unlocked_box_id = last_unlock.box)

\* C3 witness: a tick evaluated 59,999 ms after the unlock found the box
\* still unlocked
C3_Witness ==
  /\ TickEvaluatedNow
  /\ last_unlock.box # 0
  /\ Sub32(now, last_unlock.ms) = UNLOCK_DURATION_MS - 1
  /\ BitUnlocked(vending, last_unlock.box)

----------------------------------------------------------------------------
(* Specification of a vending session: selection, coins, box-count changes *)
(* and the tick that completes the sale                                    *)

SaleSlots ==
  { Slots(<<"H", "0", "0", "0", "0", "0", "0", "0", "7">>, <<"T", ":", "0">>,
          <<"C", "0", "3">>, <<"P", ":", "1", "0", ",", "5", "0", "0", ",", "2", "0">>) }

SaleBoxes == {Text(1), Text(3)}
SaleCoins == {Text(1), Text(2), Text(3)}
SaleCounts == {Text(2), Text(3)}

InitSale == \E slots \in SaleSlots, utc \in UtcTimes : Boot(slots, utc)

NextSale ==
  \/ Advance(TICK_INTERVAL_MS)
  \/ Every100ms
  \/ \E data \in SaleBoxes : VendingSelectBox(data)
  \/ \E data \in SaleCoins : VendingTest(data)
  \/ \E data \in SaleCounts : VendingBoxCount(data)
  \/ VendingFillAll

SpecSale == InitSale /\ [][NextSale]_vars

\* the tick about to run is let through by the throttle and finds a finished
\* pulse train of a recognised coin that brings the total to the price of
\* the selected box
SaleDue ==
  /\ vending.initialized
  /\ UGe(Sub32(now, last_check), TICK_INTERVAL_MS)
  /\ vending.pulse_count # 0
  /\ UGe(Sub32(now, vending.last_pulse_ms), COIN_TIMEOUT_MS)
  /\ PulsesToCents(vending.pulse_count) > 0
  /\ vending.selected_box_id > 0
  /\ UGe(Add32(vending.total_cents, PulsesToCents(vending.pulse_count)),
         vending.box_price[vending.selected_box_id - 1])

\* struct v is the outcome of a completed sale of box b
SaleDone(v, b) ==
  /\ ~v.box_status[b - 1]
  /\ v.unlocked_box_id = b
  /\ BitUnlocked(v, b)
  /\ v.selected_box_id = 0
  /\ v.total_cents = 0
  /\ v.coins_detected = 0
  /\ ~v.honey_available

\* C4: a tick that processes a recognised coin bringing the total to at least
\* the price of the selected box returns with that box empty and unlocked
\* and the session back at its idle values.
C4_SaleAtomic ==
  [][(SaleDue /\ Every100ms) => SaleDone(vending', vending.selected_box_id)]_vars

----------------------------------------------------------------------------
(* Specification of the console: the box-scoped commands and VendingBoxCount *)
(* with arguments inside and outside their ranges                            *)

ConsoleSlots ==
  { Slots(<<"H", "0", "0", "0", "0", "0", "0", "0", "3">>, <<"T", ":", "0">>,
          <<"C", "0", "2">>, <<"P", ":", "1", "0", ",", "5", "0", "0">>) }

ConsoleIds == {0, 1, 3, 255, 257}
ConsoleCounts == {0, 2, 3, 31, 258}
ConsoleStatuses == {0, 1}
ConsolePrices == {MIN_PRICE_CENTS - 1, MIN_PRICE_CENTS, MAX_PRICE_CENTS + 1}

InitConsole == \E slots \in ConsoleSlots, utc \in UtcTimes : Boot(slots, utc)

NextConsole ==
  \/ \E n \in ConsoleIds : VendingToggle(Text(n))
  \/ \E n \in ConsoleIds, s \in ConsoleStatuses : VendingSet(Text2(n, s))
  \/ \E n \in ConsoleIds, p \in ConsolePrices : VendingSetPrice(Text2(n, p))
  \/ \E n \in ConsoleIds : VendingSelectBox(Text(n))
  \/ \E n \in ConsoleIds : VendingUnlock(Text(n))
  \/ \E n \in ConsoleIds : VendingLock(Text(n))
  \/ \E n \in ConsoleCounts : VendingBoxCount(Text(n))

SpecConsole == InitConsole /\ [][NextConsole]_vars

\* the step is one of the five commands that act on box n
BoxCommand(n) ==
  \/ VendingToggle(Text(n))
  \/ \E s \in ConsoleStatuses : VendingSet(Text2(n, s))
  \/ \E p \in ConsolePrices : VendingSetPrice(Text2(n, p))
  \/ VendingUnlock(Text(n))
  \/ VendingLock(Text(n))

\* the fields a rejected box-scoped command has to leave alone
BoxFields == {"box_status", "box_price", "box_last_changed"}
SessionFields == {"selected_box_id", "total_cents", "coins_detected", "honey_available"}
LockFields == {"shift_reg_state", "unlocked_box_id", "unlock_start_ms"}

FieldsKept ==
  \A f \in BoxFields \cup SessionFields \cup LockFields : vending'[f] = vending[f]

CommandError == response'[1] = ResponseCmndError[1]

\* C5: a box-scoped command (Toggle, Set, SetPrice, SelectBox, Unlock, Lock)
\* given id 0 or an id in (box_count, 255] changes no box field, no session
\* field and no lock state, and answers with the command error.
C5_OutOfRangeRejected ==
  [][\A n \in ConsoleIds :
       (n = 0 \/ (n > vending.box_count /\ n <= 255))
       => ((BoxCommand(n) \/ VendingSelectBox(Text(n)))
           => (FieldsKept /\ CommandError))]_vars

\* C6: for every integer argument n, values of 256 and more included, Toggle,
\* Set, SetPrice, Unlock and Lock act on a box only when n itself is in
\* [1, box_count] and BoxCount changes the count only when n itself is in
\* [1, 30]; for any other n the driver's state and the settings do not change.
C6_ArgumentNotTruncated ==
  [][/\ \A n \in ConsoleIds :
          (n < 1 \/ n > vending.box_count)
          => (BoxCommand(n) => (vending' = vending /\ settings' = settings))
     /\ \A n \in ConsoleCounts :
          (n < 1 \/ n > MAX_HONEY_BOX_COUNT)
          => (VendingBoxCount(Text(n))
              => (vending' = vending /\ settings' = settings))]_vars

\* C8: VendingSetPrice with an in-range id and a price outside 10..10,000
\* answers with the command error, as it does for an out-of-range id.
C8_BadPriceIsError ==
  [][\A n \in ConsoleIds, p \in ConsolePrices :
       (/\ n >= 1 /\ n <= vending.box_count
        /\ (p < MIN_PRICE_CENTS \/ p > MAX_PRICE_CENTS))
       => (VendingSetPrice(Text2(n, p)) => CommandError)]_vars

----------------------------------------------------------------------------
(* Specification of the price store: boot from any content of the price    *)
(* slot, price changes, box-count changes, the broker connecting, restart  *)

PriceSlotTexts ==
  { <<>>,
    <<"P", ":", "5", ",", "2", "0", "0", "0", "0">>,
    <<"P", ":", "0", ",", "6", "0", "0">>,
    <<"P", ":", "1", "0", ",", "1", "0", "0", "0", "0">>,
    <<"P", ":", "x">>,
    <<"Q", ":", "7", "0">> }

PriceSlots ==
  { Slots(<<"H", "0", "0", "0", "0", "0", "0", "0", "3">>, <<"T", ":", "0">>,
          <<"C", "0", "2">>, prices) : prices \in PriceSlotTexts }

PriceIds == {1, 2}
PriceCounts == {1, 2}
PriceValues == {MIN_PRICE_CENTS - 1, MIN_PRICE_CENTS, MAX_PRICE_CENTS, MAX_PRICE_CENTS + 1}

InitPrice == \E slots \in PriceSlots, utc \in UtcTimes : Boot(slots, utc)

NextPrice ==
  \/ \E n \in PriceIds, p \in PriceValues : VendingSetPrice(Text2(n, p))
  \/ \E n \in PriceCounts : VendingBoxCount(Text(n))
  \/ MqttConnected
  \/ FuncInit

SpecPrice == InitPrice /\ [][NextPrice]_vars

\* the price a restart would read for box_id from the settings slots
StoredPrice(slots, count, box_id) ==
  HoneyVending_LoadPrices(
    [ v |-> [ZeroVending EXCEPT !.box_count = count], settings |-> slots,
      response |-> <<>>, connected |-> FALSE, retained |-> NoRetained,
      now |-> 0, utc |-> 0, last_unlock |-> NoUnlock,
      offset |-> 0, lcd |-> BlankLcd, gpio |-> AllReleased,
      hw |-> ChainAt(FALSE),
      events |-> <<>> ]).v.box_price[box_id - 1]

\* C7: SetPrice on an in-range box with p < 10 or p > 10,000 leaves the box's
\* price and the persisted price slot unchanged; with 10 <= p <= 10,000 it
\* sets the price to p, persists it and, when the broker is connected,
\* publishes it; the prices of all other boxes are never changed.
C7_PriceBounds ==
  [][\A n \in PriceIds, p \in PriceValues :
       (n >= 1 /\ n <= vending.box_count /\ VendingSetPrice(Text2(n, p)))
       => /\ \A i \in BoxIndex \ {n - 1} : vending'.box_price[i] = vending.box_price[i]
          /\ IF p < MIN_PRICE_CENTS \/ p > MAX_PRICE_CENTS
             THEN /\ vending'.box_price[n - 1] = vending.box_price[n - 1]
                  /\ settings'[HONEY_PRICE_INDEX] = settings[HONEY_PRICE_INDEX]
             ELSE /\ vending'.box_price[n - 1] = p
                  /\ StoredPrice(settings', vending'.box_count, n) = p
                  /\ mqtt_connected => retained'.box[n] = BoxPayload(vending', n)]_vars

\* C7 witness: the highest legal price was set on a box whose price was
\* different, and is in memory, in the price slot and in the published state
C7_Witness ==
  \E n \in PriceIds :
    /\ n <= vending.box_count
    /\ response = <<"SetPrice", n, MAX_PRICE_CENTS>>
    /\ vending.box_price[n - 1] = MAX_PRICE_CENTS
    /\ StoredPrice(settings, vending.box_count, n) = MAX_PRICE_CENTS
    /\ mqtt_connected
    /\ retained.box[n] = BoxPayload(vending, n)
    /\ \E i \in BoxIndex : i < vending.box_count
                           /\ vending.box_price[i] = MIN_PRICE_CENTS

\* C9: whatever the price slot held at INIT and whatever happened since,
\* every box 1..box_count has a price within [10, 10,000] cents.
C9_PricesValid ==
  \A i \in BoxIndex :
    i < vending.box_count
    => (vending.box_price[i] >= MIN_PRICE_CENTS
        /\ vending.box_price[i] <= MAX_PRICE_CENTS)

----------------------------------------------------------------------------
(* Specification of the coin input: falling edges, the clock, and the tick *)
(* that closes a burst                                                     *)

PulseSlots ==
  { Slots(<<"H", "0", "0", "0", "0", "0", "0", "0", "1">>, <<"T", ":", "0">>,
          <<"C", "0", "1">>, <<"P", ":", "5", "0", "0">>) }

PulseSteps == {1, PULSE_DEBOUNCE_MS - 1, PULSE_DEBOUNCE_MS, COIN_TIMEOUT_MS}

InitPulse == \E slots \in PulseSlots, utc \in UtcTimes : Boot(slots, utc)

NextPulse ==
  \/ PulseEdge
  \/ \E d \in PulseSteps : Advance(d)
  \/ Every100ms

SpecPulse == InitPulse /\ [][NextPulse]_vars

\* C10: while every pulse after the first of a burst has come less than 5 ms
\* after the pulse immediately before it, pulse_count is 1, however many
\* pulses were sent.
C10_DebounceHolds ==
  (vending.pulse_count # 0 /\ train.close) => vending.pulse_count = 1

----------------------------------------------------------------------------
(* Specification of the pulse interrupt preempting the 100 ms tick: the    *)
(* tick runs in the steps between which the interrupt can be served        *)

\* the tick samples millis(), passes the throttle and checks the unlock timer
TickEnter ==
  /\ tick.pc = "idle"
  /\ IF ~vending.initialized \/ Throttled(Sub32(now, last_check), TICK_INTERVAL_MS)
     THEN UNCHANGED vars
     ELSE /\ last_check' = now
          /\ Apply(CheckUnlockTimeout(Logged(Machine, <<"tick100", now>>)))
          /\ tick' = [tick EXCEPT !.pc = "test", !.now = now]
          /\ UNCHANGED <<mqtt_connected, now, utc_time, last_periodic_check, mcp_gpio,
                         train, advances>>

\* the tick tests the burst timeout on its sampled clock value
TickTest ==
  /\ tick.pc = "test"
  /\ tick' = [tick EXCEPT !.pc = IF BurstTimedOut(vending, tick.now)
                                 THEN "read" ELSE "poll"]
  /\ UNCHANGED <<vending, settings, response, mqtt_connected, retained, now,
                 utc_time, last_check, last_periodic_check, mcp_gpio, last_unlock, host_log, motor_position_offset, lcd, shift_hw,
                 train, advances>>

\* the tick copies the pulse counter into its local `pulses`
TickRead ==
  /\ tick.pc = "read"
  /\ tick' = [tick EXCEPT !.pc = "process", !.pulses = vending.pulse_count]
  /\ UNCHANGED <<vending, settings, response, mqtt_connected, retained, now,
                 utc_time, last_check, last_periodic_check, mcp_gpio, last_unlock, host_log, motor_position_offset, lcd, shift_hw,
                 train, advances>>

\* the tick decodes and books the burst and resets the pulse counter
TickProcess ==
  /\ tick.pc = "process"
  /\ Apply(CoinBurstComplete(Machine, tick.pulses))
  /\ tick' = [tick EXCEPT !.pc = "poll", !.counted = @ + tick.pulses]
  /\ UNCHANGED <<mqtt_connected, now, utc_time, last_check, last_periodic_check, mcp_gpio, train, advances>>

\* the tick polls the buttons and returns
TickPoll ==
  /\ tick.pc = "poll"
  /\ Apply(PollButtons(Machine))
  /\ tick' = [tick EXCEPT !.pc = "idle"]
  /\ UNCHANGED <<mqtt_connected, now, utc_time, last_check, last_periodic_check,
                 mcp_gpio, train, advances>>

\* the interrupt is served, wherever the tick is
PulseIsr ==
  /\ tick.accepted < MaxPulses
  /\ vending.pulse_count = 0 \/ train.sent < MaxPulses
  /\ Apply(HoneyVending_PulseISR(Machine))
  /\ train' = IF vending.pulse_count = 0
              THEN [sent |-> 1, last_edge_ms |-> now, close |-> TRUE]
              ELSE [sent |-> train.sent + 1, last_edge_ms |-> now,
                    close |-> train.close
                              /\ ULt(Sub32(now, train.last_edge_ms), PULSE_DEBOUNCE_MS)]
  /\ tick' = IF HoneyVending_PulseISR(Machine).v.pulse_count # vending.pulse_count
             THEN [tick EXCEPT !.accepted = @ + 1] ELSE tick
  /\ UNCHANGED <<mqtt_connected, now, utc_time, last_check, last_periodic_check, mcp_gpio, advances>>

IsrSlots ==
  { Slots(<<"H", "0", "0", "0", "0", "0", "0", "0", "1">>, <<"T", ":", "0">>,
          <<"C", "0", "1">>, <<"P", ":", "5", "0", "0">>) }

IsrSteps == {1, TICK_INTERVAL_MS, COIN_TIMEOUT_MS - 1, COIN_TIMEOUT_MS}

InitIsr == \E slots \in IsrSlots, utc \in UtcTimes : Boot(slots, utc)

NextIsr ==
  \/ PulseIsr
  \/ \E d \in IsrSteps : Advance(d)
  \/ TickEnter
  \/ TickTest
  \/ TickRead
  \/ TickProcess
  \/ TickPoll

SpecIsr == InitIsr /\ [][NextIsr]_vars

\* C11: under every interleaving of the interrupt with the tick, the tick
\* takes a burst as complete only when at least 200 ms have passed since the
\* last accepted pulse, and does take it as complete when its sampled clock
\* is 200 ms or more past that pulse.
C11_TimeoutGated ==
  [][TickTest =>
       /\ tick'.pc = "read"
            => UGe(Sub32(now, vending.last_pulse_ms), COIN_TIMEOUT_MS)
       /\ (/\ vending.pulse_count # 0
           /\ tick.now >= vending.last_pulse_ms
           /\ tick.now - vending.last_pulse_ms >= COIN_TIMEOUT_MS)
            => tick'.pc = "read"]_vars

\* C12: between ticks, every pulse the interrupt handler accepted is either
\* still in pulse_count or was counted in a finalized burst - none is lost.
C12_NoPulseLost ==
  tick.pc = "idle" => tick.accepted = tick.counted + vending.pulse_count

----------------------------------------------------------------------------
(* Specification of the decoder: bursts of 0..100 pulses, planted with     *)
(* VendingTest, are decoded by the tick with no box selected               *)

DecodeSlots ==
  { Slots(<<"H", "0", "0", "0", "0", "0", "0", "0", "1">>, <<"T", ":", "0">>,
          <<"C", "0", "1">>, <<"P", ":", "5", "0", "0">>) }

DecodePulses == 0..MaxDecodePulses

InitDecode == \E slots \in DecodeSlots, utc \in UtcTimes : Boot(slots, utc)

\* one burst at a time, until a coin has been booked
DecodeTest(n) ==
  /\ vending.pulse_count = 0
  /\ vending.coins_detected = 0
  /\ VendingTest(Text(n))

NextDecode ==
  \/ \E n \in DecodePulses : DecodeTest(n)
  \/ Advance(TICK_INTERVAL_MS)
  \/ Every100ms

SpecDecode == InitDecode /\ [][NextDecode]_vars

\* the coin table of the acceptor: pulses -> cents
CoinTable == (1 :> 10) @@ (2 :> 20) @@ (5 :> 50) @@ (10 :> 100) @@ (20 :> 200)
CoinCents(n) == IF n \in DOMAIN CoinTable THEN CoinTable[n] ELSE 0

\* the tick about to run finalizes the pending burst
BurstDue ==
  /\ vending.initialized
  /\ UGe(Sub32(now, last_check), TICK_INTERVAL_MS)
  /\ BurstTimedOut(vending, now)

\* C13: for every pulse count n in 0..100 the decoder gives 10, 20, 50, 100,
\* 200 cents for n = 1, 2, 5, 10, 20 and 0 for every other n: a tick that
\* finalizes a burst of n pulses adds exactly that amount to the total, and
\* books a coin only when the amount is not 0.
C13_DecoderExact ==
  [][/\ PulsesToCents(0) = CoinCents(0)
     /\ (BurstDue /\ vending.selected_box_id = 0 /\ Every100ms)
        => LET n == vending.pulse_count
           IN /\ n \in DecodePulses
              /\ vending'.total_cents = vending.total_cents + CoinCents(n)
              /\ vending'.coins_detected =
                   vending.coins_detected + (IF CoinCents(n) > 0 THEN 1 ELSE 0)
              /\ CoinCents(n) > 0 => vending'.last_coin_cents = CoinCents(n)]_vars

\* C13 witness: a tick decoded a 20-pulse burst as 200 cents
C13_Witness ==
  /\ vending.pulse_count = 0
  /\ vending.last_coin_cents = 200
  /\ vending.total_cents = 200
  /\ vending.coins_detected = 1
  /\ TickEvaluatedNow

----------------------------------------------------------------------------
(* Specification of the interrupt handler's footprint: pulses arriving     *)
(* while a box is selected, a box is unlocked and the broker is connected  *)

FrameSlots ==
  { Slots(<<"H", "0", "0", "0", "0", "0", "0", "0", "3">>, <<"T", ":", "0">>,
          <<"C", "0", "2">>, <<"P", ":", "1", "0", ",", "5", "0", "0">>) }

InitFrame == \E slots \in FrameSlots, utc \in UtcTimes : Boot(slots, utc)

NextFrame ==
  \/ PulseEdge
  \/ Advance(PULSE_DEBOUNCE_MS)
  \/ VendingSelectBox(Text(1))
  \/ VendingUnlock(Text(2))
  \/ MqttConnected

SpecFrame == InitFrame /\ [][NextFrame]_vars

PulseFields == {"pulse_count", "last_pulse_ms", "first_pulse_ms"}

\* C14: a run of the pulse interrupt handler changes nothing but pulse_count,
\* last_pulse_ms and first_pulse_ms: every other field of the driver (session,
\* boxes, locks), the settings slots, the response buffer, the motor offset,
\* the display and the published MQTT state are as before.
C14_IsrFootprint ==
  [][PulseEdge =>
       /\ \A f \in (DOMAIN vending) \ PulseFields : vending'[f] = vending[f]
       /\ settings' = settings
       /\ retained' = retained
       /\ response' = response
       /\ motor_position_offset' = motor_position_offset
       /\ lcd' = lcd
       /\ shift_hw' = shift_hw
       /\ mqtt_connected' = mqtt_connected]_vars

\* C14 witness: two pulses were counted while box 1 was selected, box 2
\* unlocked and the broker connected
C14_Witness ==
  /\ vending.pulse_count = 2
  /\ vending.first_pulse_ms # vending.last_pulse_ms
  /\ vending.selected_box_id = 1
  /\ vending.unlocked_box_id = 2
  /\ BitUnlocked(vending, 2)
  /\ mqtt_connected
  /\ retained.system # NoPayload

----------------------------------------------------------------------------
(* Specification of the settings store: power-on with any content of the   *)
(* four slots, FUNC_INIT, inventory changes from the console, restart      *)

StatusTexts == { <<"H", "0", "0", "0", "0", "0", "0", "0", "3">>, <<>>, <<"H", "3">> }
TimestampTexts == { <<"T", ":", "5", ",", "6">>, <<>>, <<"Q", ":", "1">> }
CountTexts == { <<"C", "0", "2">>, <<>>, <<"C", "9", "9">> }
PriceTexts == { <<"P", ":", "1", "0", ",", "2", "0">>, <<>>, <<"Q", ":", "7", "0">> }

\* all four well-formed, or one slot bad, or all four missing
StoreSlots ==
  { Slots(st, <<"T", ":", "5", ",", "6">>, <<"C", "0", "2">>,
          <<"P", ":", "1", "0", ",", "2", "0">>) : st \in StatusTexts }
  \cup { Slots(<<"H", "0", "0", "0", "0", "0", "0", "0", "3">>, ts, <<"C", "0", "2">>,
               <<"P", ":", "1", "0", ",", "2", "0">>) : ts \in TimestampTexts }
  \cup { Slots(<<"H", "0", "0", "0", "0", "0", "0", "0", "3">>, <<"T", ":", "5", ",", "6">>,
               c, <<"P", ":", "1", "0", ",", "2", "0">>) : c \in CountTexts }
  \cup { Slots(<<"H", "0", "0", "0", "0", "0", "0", "0", "3">>, <<"T", ":", "5", ",", "6">>,
               <<"C", "0", "2">>, pr) : pr \in PriceTexts }
  \cup { Slots(<<>>, <<>>, <<>>, <<>>) }

StoreCounts == {2, 4}
StoreBoxes == {1, 3}

\* power-on: the driver's globals are zero, FUNC_INIT has not run yet
PowerOn(slots, utc) ==
  /\ vending = ZeroVending
  /\ settings = slots
  /\ response = <<>>
  /\ retained = NoRetained
  /\ last_unlock = NoUnlock
  /\ host_log = NoLog
  /\ motor_position_offset = 0
  /\ lcd = BlankLcd
  /\ shift_hw \in {ChainAt(FALSE), ChainAt(TRUE)}
  /\ mcp_gpio = AllReleased
  /\ mqtt_connected = FALSE
  /\ now = 0
  /\ utc_time = utc
  /\ last_check = 0
  /\ last_periodic_check = 0
  /\ train = NoTrain
  /\ tick = NoTick
  /\ advances = 0

InitStore == \E slots \in StoreSlots, utc \in UtcTimes : PowerOn(slots, utc)

\* the host dispatches commands only after FUNC_INIT
NextStore ==
  \/ FuncInit
  \/ \E n \in StoreCounts : vending.initialized /\ VendingBoxCount(Text(n))
  \/ \E n \in StoreBoxes : vending.initialized /\ VendingToggle(Text(n))
  \/ vending.initialized /\ VendingSetPrice(Text2(3, MAX_PRICE_CENTS))
  \/ vending.initialized /\ VendingClearAll
  \/ vending.initialized /\ VendingFillAll
  \/ vending.initialized /\ VendingSelectBox(Text(1))

SpecStore == InitStore /\ [][NextStore]_vars


\* struct vending as a restart would load it from the settings slots
Restarted(slots) ==
  HoneyVending_Init(
    [ v |-> ZeroVending, settings |-> slots, response |-> <<>>,
      connected |-> FALSE, retained |-> NoRetained, now |-> 0, utc |-> 0,
      last_unlock |-> NoUnlock,
      offset |-> 0, lcd |-> BlankLcd, gpio |-> AllReleased,
      hw |-> ChainAt(FALSE),
      events |-> <<>> ]).v

\* C15: a box-count change from m to n > m (n <= 30) leaves status, price and
\* timestamp of boxes 1..m unchanged, sets every box m+1..n to empty, price
\* 500 and timestamp = current time, and persists count, status and prices.
C15_GrowthInitializes ==
  [][\A n \in StoreCounts :
       (vending.initialized /\ n > vending.box_count /\ n <= MAX_HONEY_BOX_COUNT
        /\ VendingBoxCount(Text(n)))
       => LET r == Restarted(settings')
          IN /\ vending'.box_count = n
             /\ \A i \in BoxIndex :
                  IF i < vending.box_count
                  THEN /\ vending'.box_status[i] = vending.box_status[i]
                       /\ vending'.box_price[i] = vending.box_price[i]
                       /\ vending'.box_last_changed[i] = vending.box_last_changed[i]
                  ELSE i < n => /\ ~vending'.box_status[i]
                                /\ vending'.box_price[i] = DEFAULT_PRICE_CENTS
                                /\ vending'.box_last_changed[i] = utc_time
             /\ r.box_count = n
             /\ \A i \in BoxIndex :
                  i < n => /\ r.box_status[i] = vending'.box_status[i]
                           /\ r.box_price[i] = vending'.box_price[i]]_vars

\* C15 witness: the count grew to 4; boxes 3 and 4 are fresh while box 1
\* still is as it was emptied before, and the slots hold the new count
C15_Witness ==
  /\ response = <<"BoxCount", 4, MAX_HONEY_BOX_COUNT>>
  /\ vending.box_count = 4
  /\ ~vending.box_status[0] /\ vending.box_last_changed[0] = utc_time
  /\ vending.box_status[1] /\ vending.box_last_changed[1] # utc_time
  /\ \A i \in 2..3 : /\ ~vending.box_status[i]
                     /\ vending.box_price[i] = DEFAULT_PRICE_CENTS
                     /\ vending.box_last_changed[i] = utc_time
  /\ Restarted(settings).box_count = 4

CountSlotOk(text) ==
  /\ Len(text) >= 3 /\ text[1] = "C"
  /\ atoi(From(text, 2)) >= 1 /\ atoi(From(text, 2)) <= MAX_HONEY_BOX_COUNT
StatusSlotOk(text) == Len(text) >= 5 /\ text[1] = "H"
ListSlotOk(text, letter) == Len(text) > 2 /\ text[1] = letter /\ text[2] = ":"

\* the k-th (from 0) comma-separated number of a list, 0 when there is none
RECURSIVE ListField(_, _)
ListField(ptr, k) ==
  IF k = 0 THEN strtoul(ptr, 10)
  ELSE IF strchr(ptr, ",") = 0 THEN 0
  ELSE ListField(From(ptr, strchr(ptr, ",") + 1), k - 1)

\* the encoding of a list of `count` equal numbers
DefaultList(letter, value, count) ==
  <<letter, ":">> \o JoinDec([i \in BoxIndex |-> value], 0, count)

\* C17: at INIT, for each of the four slots independently, a missing or
\* malformed stored value makes the in-memory data of that slot take its
\* default (all empty / all 0 / 15 / all 500) and the slot is rewritten with
\* a well-formed encoding of that default; a well-formed slot is loaded as
\* stored.
C17_FallbackPerSlot ==
  [][FuncInit =>
       LET count == settings[HONEY_BOX_COUNT_INDEX]
           status == settings[HONEY_SETTINGS_INDEX]
           stamps == settings[HONEY_TIMESTAMP_INDEX]
           prices == settings[HONEY_PRICE_INDEX]
           n == vending'.box_count
       IN /\ IF CountSlotOk(count)
             THEN n = atoi(From(count, 2))
             ELSE /\ n = DEFAULT_HONEY_BOX_COUNT
                  /\ settings'[HONEY_BOX_COUNT_INDEX] = <<"C">> \o Format02d(n)
          /\ IF StatusSlotOk(status)
             THEN \A i \in BoxIndex :
                    i < n => vending'.box_status[i]
                               = (BitOf(strtoul(From(status, 2), 16), i) = 1)
             ELSE /\ \A i \in BoxIndex : i < n => ~vending'.box_status[i]
                  /\ settings'[HONEY_SETTINGS_INDEX] = <<"H">> \o Format08X(0)
          /\ IF ListSlotOk(stamps, "T")
             THEN \A i \in BoxIndex :
                    i < n => vending'.box_last_changed[i]
                               = ListField(From(stamps, 3), i)
             ELSE /\ \A i \in BoxIndex : i < n => vending'.box_last_changed[i] = 0
                  /\ settings'[HONEY_TIMESTAMP_INDEX] = DefaultList("T", 0, n)
          /\ IF ListSlotOk(prices, "P")
             THEN \A i \in BoxIndex :
                    i < n => vending'.box_price[i]
                               = IF ListField(From(prices, 3), i) # 0
                                 THEN ListField(From(prices, 3), i)
                                 ELSE DEFAULT_PRICE_CENTS
             ELSE /\ \A i \in BoxIndex :
                       i < n => vending'.box_price[i] = DEFAULT_PRICE_CENTS
                  /\ settings'[HONEY_PRICE_INDEX]
                       = DefaultList("P", DEFAULT_PRICE_CENTS, n)]_vars

----------------------------------------------------------------------------
(* Specification of Home-Assistant discovery: the broker connects and      *)
(* disconnects, the box count shrinks and grows, the driver restarts       *)

MqttSlots ==
  { Slots(<<"H", "0", "0", "0", "0", "0", "0", "0", "7">>, <<"T", ":", "0">>,
          <<"C", "0", "3">>, <<"P", ":", "1", "0", ",", "5", "0", "0", ",", "2", "0">>) }

MqttCounts == {1, 2, 3}

InitMqtt == \E slots \in MqttSlots, utc \in UtcTimes : Boot(slots, utc)

NextMqtt ==
  \/ MqttConnected
  \/ MqttDisconnected
  \/ FuncInit
  \/ \E n \in MqttCounts : VendingBoxCount(Text(n))
  \/ VendingToggle(Text(1))

SpecMqtt == InitMqtt /\ [][NextMqtt]_vars

\* the positions in a callback's events of the publishes to the discovery
\* config topic of box i: withdrawals (empty payload), discovery documents,
\* and publishes whatever the payload
ConfigPublishes(events, i) ==
  {k \in DOMAIN events : /\ events[k][1] = "publish"
                         /\ events[k][2] = "ha_box" /\ events[k][3] = i}
Withdrawals(events, i) ==
  {k \in ConfigPublishes(events, i) : events[k][4] = NoPayload}
Discoveries(events, i) ==
  {k \in ConfigPublishes(events, i) : events[k][4] = DiscoveryPayload(i)}

\* a step of the box-count command that lowers the count, broker connected
Shrinks ==
  /\ mqtt_connected
  /\ vending'.box_count < vending.box_count
  /\ \E k \in DOMAIN host_log'.events : host_log'.events[k][1] = "box_count"

\* C18: a box-count command that lowers the count from m to n while MQTT is
\* connected publishes a withdrawal (the empty payload) to the discovery
\* config topic of every box n+1..m and of no box 1..n, and every withdrawal
\* comes before the discovery documents of boxes 1..n are published.
C18_WithdrawalOnShrink ==
  [][Shrinks =>
       LET events == host_log'.events
           Retired == (vending'.box_count + 1)..vending.box_count
           Kept == 1..vending'.box_count
       IN /\ \A i \in Retired : Withdrawals(events, i) # {}
          /\ \A i \in Kept : Withdrawals(events, i) = {}
          /\ \A i \in Retired, j \in Kept :
               \A w \in Withdrawals(events, i), d \in Discoveries(events, j) : w < d
     ]_vars

\* the same step, leaving the payload aside: the config topics of boxes
\* n+1..m are published to before the discovery documents of boxes 1..n, and
\* those of boxes 1..n receive nothing but their discovery document
C18_TopicsAndOrder ==
  [][Shrinks =>
       LET events == host_log'.events
           Retired == (vending'.box_count + 1)..vending.box_count
           Kept == 1..vending'.box_count
       IN /\ \A i \in Retired : ConfigPublishes(events, i) # {}
          /\ \A i \in Kept : /\ Discoveries(events, i) # {}
                              /\ ConfigPublishes(events, i) = Discoveries(events, i)
          /\ \A i \in Retired, j \in Kept :
               \A w \in ConfigPublishes(events, i), d \in Discoveries(events, j) :
                 w < d
     ]_vars

\* the callback published the discovery documents: one per box and the two
\* sensor documents, all of them reaching the broker
PublishedDiscovery(events, count) ==
  /\ \A i \in 1..count :
       \E k \in Discoveries(events, i) : events[k][5]
  /\ \E k \in DOMAIN events :
       events[k] = <<"publish", "ha_available", 0, DiscoveryPayload(0), TRUE>>
  /\ \E k \in DOMAIN events :
       events[k] = <<"publish", "ha_total", 0, DiscoveryPayload(0), TRUE>>

\* the callback made no publish to any discovery topic
PublishedNoDiscovery(events) ==
  \A k \in DOMAIN events :
    events[k][1] = "publish" => events[k][2] \notin {"ha_box", "ha_available", "ha_total"}

\* C19: an MQTT-connected notification publishes the discovery documents if
\* they were not published since boot or since the last box-count change,
\* and publishes none of them otherwise.
C19_DiscoveryOneShot ==
  [][(vending.initialized /\ MqttConnected) =>
       IF host_log.fresh
       THEN PublishedNoDiscovery(host_log'.events)
       ELSE PublishedDiscovery(host_log'.events, vending.box_count)
     ]_vars

\* the notification after a count change made without a connection has
\* published discovery for the new count
C19_Witness ==
  /\ mqtt_connected
  /\ vending.box_count = 1
  /\ host_log.events # <<>>
  /\ host_log.events[1][1] = "publish"
  /\ PublishedDiscovery(host_log.events, 1)
  /\ retained.ha_box[2] = NoPayload

----------------------------------------------------------------------------
(* Specification of the driver without a broker connection: the broker may *)
(* connect right after boot and drop out; every command, a sale and both   *)
(* ticks then run without it                                               *)

OfflineSlots ==
  { Slots(<<"H", "0", "0", "0", "0", "0", "0", "0", "3">>, <<"T", ":", "0">>,
          <<"C", "0", "2">>, <<"P", ":", "1", "0", ",", "5", "0", "0">>) }

InitOffline == \E slots \in OfflineSlots, utc \in UtcTimes : Boot(slots, utc)

NextOffline ==
  \/ response = NoPayload /\ now = 0 /\ MqttConnected
  \/ MqttDisconnected
  \/ ~mqtt_connected /\ VendingBoxCount(Text(1))
  \/ ~mqtt_connected /\ VendingToggle(Text(1))
  \/ ~mqtt_connected /\ VendingSetPrice(Text2(2, MIN_PRICE_CENTS))
  \/ ~mqtt_connected /\ VendingClearAll
  \/ ~mqtt_connected /\ VendingFillAll
  \/ ~mqtt_connected /\ VendingSelectBox(Text(1))
  \/ ~mqtt_connected /\ VendingReset
  \/ ~mqtt_connected /\ VendingTest(Text(1))
  \/ Advance(COIN_TIMEOUT_MS)
  \/ Every100ms
  \/ Every250ms

SpecOffline == InitOffline /\ [][NextOffline]_vars

\* C20: no callback calls the host's MqttPublish while the broker is not
\* connected.
C20_NoOfflinePublish ==
  \A k \in DOMAIN host_log.events :
    host_log.events[k][1] = "publish" => host_log.events[k][5]

----------------------------------------------------------------------------
(* Specification of the coin gate motor: accept, reject and reset commands *)

PeripheralSlots ==
  { Slots(<<"H", "0", "0", "0", "0", "0", "0", "0", "3">>, <<"T", ":", "0">>,
          <<"C", "0", "2">>, <<"P", ":", "1", "0", ",", "5", "0", "0">>) }

\* texts of the motor command: the three actions, one in lower case, and one
\* that names no action
MotorResetTexts == { ResetText, <<"r", "e", "s", "e", "t">>, <<"H", "O", "M", "E">> }

InitMotor == \E slots \in PeripheralSlots, utc \in UtcTimes : Boot(slots, utc)

NextMotor ==
  \/ host_log.net > 0 - MaxMotorActions /\ VendingMotor(CoinAcceptText)
  \/ host_log.net < MaxMotorActions /\ VendingMotor(CoinRejectText)
  \/ \E data \in MotorResetTexts : VendingMotor(data)
  \/ FuncInit

SpecMotor == InitMotor /\ [][NextMotor]_vars

\* the rotations a callback made: step count and direction of each
Rotations(events) ==
  {k \in DOMAIN events : events[k][1] = "rotate"}

\* the callback performed the motor action
DidMotorAction(events, action) ==
  \E k \in DOMAIN events : events[k] = <<"motor_action", action>>

\* the motor's part of a reset from `net` rejects less accepts: nothing at
\* zero, else one rotation of 25 x |net| steps against the sign of the offset
ResetRotates(events, net) ==
  IF net = 0 THEN Rotations(events) = {}
  ELSE \E k \in DOMAIN events :
         /\ Rotations(events) = {k}
         /\ events[k][2] = MOTOR_45DEG_STEPS * (IF net < 0 THEN 0 - net ELSE net)
         /\ events[k][3] = (net < 0)

\* C21: the tracked motor offset is 25 x (rejects - accepts) since the last
\* RESET or INIT; a RESET emits |offset| step pulses against the sign of the
\* offset and leaves the offset 0; at offset 0 it emits none and does not
\* enable the driver.
C21_MotorHome ==
  [][/\ motor_position_offset' = MOTOR_45DEG_STEPS * host_log'.net
     /\ DidMotorAction(host_log'.events, MOTOR_RESET)
          => /\ ResetRotates(host_log'.events, host_log.net)
             /\ motor_position_offset' = 0
    ]_vars

\* the same for offsets that a 16-bit signed integer holds
C21_WithinInt16 ==
  [][(/\ MOTOR_45DEG_STEPS * host_log.net \in (0 - 2^15)..(2^15 - 1)
      /\ MOTOR_45DEG_STEPS * host_log'.net \in (0 - 2^15)..(2^15 - 1))
     => /\ motor_position_offset' = MOTOR_45DEG_STEPS * host_log'.net
        /\ DidMotorAction(host_log'.events, MOTOR_RESET)
             => /\ ResetRotates(host_log'.events, host_log.net)
                /\ motor_position_offset' = 0
    ]_vars

----------------------------------------------------------------------------
(* Specification of the push buttons: pin levels change between the polls  *)
(* of the 100 ms tick                                                      *)

\* pin levels: nothing pressed, button 1, buttons 1 and 2, button 16
ButtonLevels == {AllReleased, AllReleased - 1, AllReleased - 3, AllReleased - 2^15}

InitButtons == \E slots \in PeripheralSlots, utc \in UtcTimes : Boot(slots, utc)

NextButtons ==
  \/ \E g \in ButtonLevels : ButtonsChange(g)
  \/ now < MaxPolls * TICK_INTERVAL_MS /\ Elapse(TICK_INTERVAL_MS)
  \/ Every100ms
  \/ VendingButtons
  \/ FuncInit

SpecButtons == InitButtons /\ [][NextButtons]_vars

\* button n (1..16) is pressed in the pin levels `state`
Pressed(state, n) == BitOf(state, n - 1) = 0

\* the press edges a callback reported, in order
ButtonReports(events) == SelectSeq(events, LAMBDA e : e[1] = "button")

\* the callback polled the buttons
DidPoll(events) == \E k \in DOMAIN events : events[k][1] = "poll"

\* C22: a tick that passes the throttle polls the buttons; the poll reports a press edge for a button exactly once when it reads
\* the button pressed and the poll before read it released (or there was no
\* poll before), and none for any other button: a held button gives one
\* edge on the first poll that reads it pressed, and another only after a
\* poll has read it released.
C22_OneEdgePerPress ==
  [][last_check' # last_check /\ DidPoll(host_log'.events)
     => LET reports == ButtonReports(host_log'.events)
        IN \A n \in 1..16 :
             Cardinality({k \in DOMAIN reports : reports[k][2] = n})
               = IF Pressed(mcp_gpio, n) /\ ~Pressed(host_log.polled, n) THEN 1 ELSE 0
    ]_vars

\* a poll has read button 1 pressed for the second time in a row and has
\* reported nothing
C22_Witness ==
  /\ DidPoll(host_log.events)
  /\ Pressed(host_log.polled, 1)
  /\ Pressed(vending.last_button_state, 1)
  /\ ButtonReports(host_log.events) = <<>>

----------------------------------------------------------------------------
(* Specification of the display: writes at any position, the write and     *)
(* clear commands, restarts                                                *)

LcdRows == {0, 1, 2}
LcdCols == {0, 15, 16}

\* texts of 0, 2 and 17 characters
LcdTexts ==
  { <<>>, <<"H", "i">>,
    <<"S", "e", "l", "e", "c", "t", " ", "a", " ", "b", "o", "x", " ", "1", "-", "1", "5">> }

\* arguments of the write command: rows 0, 1 and 2, and no row
LcdCommands ==
  { <<"0", " ", "H", "i">>, <<"1", " ", "H", "i">>, <<"2", " ", "H", "i">>,
    <<"H", "i">> }

InitLcd == \E slots \in PeripheralSlots, utc \in UtcTimes : Boot(slots, utc)

NextLcd ==
  \/ \E row \in LcdRows, col \in LcdCols, text \in LcdTexts : LcdWrite(row, col, text)
  \/ \E data \in LcdCommands : VendingLCDWrite(data)
  \/ VendingLCDClear
  \/ FuncInit

SpecLcd == InitLcd /\ [][NextLcd]_vars

\* what a write of `text` at column col has to send: the text cut to the
\* rest of the row, then blanks up to column 15
RestOfRow(col, text) ==
  LET width == LCD_COLS - col
      shown == IF Len(text) <= width THEN text ELSE SubSeq(text, 1, width)
  IN shown \o [i \in 1..(width - Len(shown)) |-> " "]

\* the accepted writes of a callback: positions in its log
LcdWrites(events) == {k \in DOMAIN events : events[k][1] = "lcd_write"}

\* write k of the log sent `sent` to the display, and if it is the last
\* write to its row the display shows `sent` from its column on
WriteSent(events, k, sent) ==
  LET row == events[k][2]
      col == events[k][3]
  IN /\ k + 1 \in DOMAIN events
     /\ events[k + 1][1] = "lcd"
     /\ events[k + 1] = <<"lcd", row, col, sent>>
     /\ (\A j \in LcdWrites(events) : j > k => events[j][2] # row)
          => \A c \in (col + 1)..LCD_COLS : lcd[row][c] = sent[c - col]

\* C23: a write to an initialised display at row 0 or 1 and column 0..15
\* sends exactly 16 - col characters from (row, col) on, the first
\* min(len, 16 - col) characters of the text followed by blanks, and no
\* character shown before in columns col..15 of the row remains.
C23_RowOverwritten ==
  \A k \in LcdWrites(host_log.events) :
    WriteSent(host_log.events, k,
              RestOfRow(host_log.events[k][3], host_log.events[k][4]))

\* the same for texts that reach the end of the row: they are cut to the
\* rest of the row
C23_LongTextsCut ==
  \A k \in LcdWrites(host_log.events) :
    LET col == host_log.events[k][3]
        text == host_log.events[k][4]
    IN Len(text) >= LCD_COLS - col
         => WriteSent(host_log.events, k, RestOfRow(col, text))

\* a text shorter than the rest of the row is sent as it is, with no blank
\* after it
C23_ShortTextsBare ==
  \A k \in LcdWrites(host_log.events) :
    LET row == host_log.events[k][2]
        col == host_log.events[k][3]
        text == host_log.events[k][4]
    IN Len(text) < LCD_COLS - col
         => /\ k + 1 \in DOMAIN host_log.events
            /\ host_log.events[k + 1][1] = "lcd"
            /\ host_log.events[k + 1] = <<"lcd", row, col, text>>

----------------------------------------------------------------------------
(* Specifications of the vending session: selection, coins and reset; and  *)
(* the session with box commands given in the middle of it                 *)

\* three boxes priced 10, 500 and 20 cents; box 2 is empty
SessionSlots ==
  { Slots(<<"H", "0", "0", "0", "0", "0", "0", "0", "5">>, <<"T", ":", "0">>,
          <<"C", "0", "3">>, <<"P", ":", "1", "0", ",", "5", "0", "0", ",", "2", "0">>) }

\* arguments of the select command: none, 0, an empty box, available boxes
SessionBoxes == {<<>>, Text(0), Text(1), Text(2), Text(3)}

\* bursts of 1 and 3 pulses: 10 cents and no coin
SessionCoins == {Text(1), Text(3)}

InitSession == \E slots \in SessionSlots, utc \in UtcTimes : Boot(slots, utc)

NextSession ==
  \/ response = NoPayload /\ now = 0 /\ MqttConnected
  \/ now < MaxPolls * TICK_INTERVAL_MS /\ Elapse(TICK_INTERVAL_MS)
  \/ now < MaxPolls * TICK_INTERVAL_MS /\ Elapse(UNLOCK_DURATION_MS)
  \/ Every100ms
  \/ \E data \in SessionBoxes : VendingSelectBox(data)
  \/ \E data \in SessionCoins : VendingTest(data)
  \/ VendingReset

SpecSession == InitSession /\ [][NextSession]_vars

\* the session with box commands given in the middle of it
NextService ==
  \/ Advance(TICK_INTERVAL_MS)
  \/ Every100ms
  \/ VendingSelectBox(Text(1))
  \/ VendingSelectBox(Text(3))
  \/ VendingTest(Text(1))
  \/ VendingToggle(Text(3))
  \/ VendingSet(Text2(1, 0))
  \/ VendingClearAll
  \/ VendingSetPrice(Text2(3, MIN_PRICE_CENTS))

SpecService == InitSession /\ [][NextService]_vars

\* the select command given no box: no argument, or 0
Deselection == VendingSelectBox(<<>>) \/ VendingSelectBox(Text(0))

\* C24: VendingReset and deselection (VendingSelectBox with no id or id 0)
\* both leave total_cents = 0, coins_detected = 0, the pulse counter 0,
\* honey_available false and selected_box_id = 0.
C24_IdleZeroed ==
  [][(VendingReset \/ Deselection)
     => /\ vending'.total_cents = 0
        /\ vending'.coins_detected = 0
        /\ vending'.pulse_count = 0
        /\ ~vending'.honey_available
        /\ vending'.selected_box_id = 0
    ]_vars

\* VendingReset zeroes the five fields; deselection zeroes four of them and
\* keeps the pulse counter
C24_DeselectKeepsPulses ==
  [][/\ VendingReset
          => /\ vending'.total_cents = 0
             /\ vending'.coins_detected = 0
             /\ vending'.pulse_count = 0
             /\ ~vending'.honey_available
             /\ vending'.selected_box_id = 0
     /\ Deselection
          => /\ vending'.total_cents = 0
             /\ vending'.coins_detected = 0
             /\ vending'.pulse_count = vending.pulse_count
             /\ ~vending'.honey_available
             /\ vending'.selected_box_id = 0
    ]_vars

\* C25: in every reachable state with a box selected, the status of the
\* selected box is available, also after Toggle, Set, ClearAll or a sale
\* during the session.
C25_SelectedIsAvailable ==
  vending.selected_box_id # 0 => vending.box_status[vending.selected_box_id - 1]

\* the tick about to run passes the throttle and finds a finished burst of a
\* recognised coin
CoinTick ==
  /\ last_check' # last_check
  /\ BurstTimedOut(vending, now)
  /\ PulsesToCents(vending.pulse_count) > 0

\* the session controller unlocks a box only when its status is available
C25_SaleOfAvailableBox ==
  [][(CoinTick /\ vending'.unlocked_box_id # vending.unlocked_box_id)
     => vending.box_status[vending'.unlocked_box_id - 1]]_vars

\* C26: in every state between host callbacks, if a box is selected then
\* total_cents is strictly below the current price of that box, also after
\* SetPrice changed the price of the selected box in the middle of the
\* session.
C26_BelowPrice ==
  vending.selected_box_id # 0
    => ULt(vending.total_cents, vending.box_price[vending.selected_box_id - 1])

\* a tick that books a recognised coin leaves the total below the price of
\* the box still selected
C26_CoinTickSettles ==
  [][CoinTick
     => (vending'.selected_box_id # 0
         => ULt(vending'.total_cents,
                vending'.box_price[vending'.selected_box_id - 1]))]_vars

\* the publish calls a callback made
Publishes(events) == SelectSeq(events, LAMBDA e : e[1] = "publish")

\* C27: in every state between host callbacks (after any tick or command
\* has returned) honey_available is false.
C27_CompleteIsTransient == ~vending.honey_available

\* a sale has been made: its box is unlocked and marked empty, the session
\* is idle
C27_Witness ==
  /\ vending.unlocked_box_id # 0
  /\ ~vending.box_status[vending.unlocked_box_id - 1]
  /\ vending.selected_box_id = 0
  /\ ~vending.honey_available

\* C29: the select command on an in-range box that is empty changes no
\* session field and publishes nothing; on an available box it sets
\* selected_box_id to the box, total_cents and coins_detected to 0 and
\* honey_available to false.
C29_SelectChecksStatus ==
  [][\A n \in 1..vending.box_count :
       VendingSelectBox(Text(n))
       => IF ~vending.box_status[n - 1]
          THEN /\ \A f \in SessionFields : vending'[f] = vending[f]
               /\ Publishes(host_log'.events) = <<>>
               /\ retained' = retained
          ELSE /\ vending'.selected_box_id = n
               /\ vending'.total_cents = 0
               /\ vending'.coins_detected = 0
               /\ ~vending'.honey_available
    ]_vars

\* an empty box was asked for in a session with money in it, the broker
\* connected
C29_Witness ==
  /\ response = <<"BoxEmpty", 2>>
  /\ mqtt_connected
  /\ vending.selected_box_id = 3
  /\ vending.total_cents = 10

\* a box was selected over a session with money in it
C29_WitnessAvailable ==
  /\ response = <<"SelectedBox", 1, 10>>
  /\ vending.selected_box_id = 1
  /\ vending.last_coin_cents = 10
  /\ vending.total_cents = 0

\* an unlock window runs out in the tick about to run
RelockDue ==
  /\ vending.unlocked_box_id > 0
  /\ UnlockTimeoutReached(Sub32(now, vending.unlock_start_ms))

\* the tick about to run, had no burst been pending
CoinlessTick == Every100msBody([Machine EXCEPT !.v.pulse_count = 0])

C30_WitnessRelock ==
  /\ vending.pulse_count = 0
  /\ vending.last_pulse_ms = Sub32(Sub32(now, COIN_TIMEOUT_MS), 100)
  /\ last_check = now
  /\ \A k \in DOMAIN host_log.events : host_log.events[k][1] \in {"tick100", "poll"}
  /\ host_log.events # <<>>
  /\ last_unlock.box # 0
  /\ vending.unlocked_box_id = 0
  /\ UGe(Sub32(now, last_unlock.ms), UNLOCK_DURATION_MS)

----------------------------------------------------------------------------
(* Specification of the sale with the broker connected or not, and the box *)
(* count changed in the middle of a session                                *)

NextOrder ==
  \/ response = NoPayload /\ now = 0 /\ MqttConnected
  \/ Advance(TICK_INTERVAL_MS)
  \/ Every100ms
  \/ VendingSelectBox(Text(1))
  \/ VendingSelectBox(Text(3))
  \/ VendingTest(Text(1))
  \/ VendingBoxCount(Text(2))

SpecOrder == InitSession /\ [][NextOrder]_vars

\* event k of the log is a publish call on the system topic showing the
\* given completion flag, selected box and total
SystemPublished(events, k, honey, box, total) ==
  /\ events[k][1] = "publish"
  /\ events[k][2] = "system"
  /\ events[k][4][1] = "system"
  /\ events[k][4][6] = honey
  /\ events[k][4][4] = box
  /\ events[k][4][2] = total

\* event k is a publish call on the topic of box b showing it empty
EmptyBoxPublished(events, k, b) ==
  /\ events[k][1] = "publish"
  /\ events[k][2] = "box"
  /\ events[k][3] = b
  /\ events[k][4][1] = "box"
  /\ events[k][4][2] = b
  /\ ~events[k][4][3]

\* event k is a publish call of the summary
SummaryPublished(events, k) ==
  /\ events[k][1] = "publish"
  /\ events[k][2] = "summary"
  /\ events[k][4][1] = "summary"

\* the steps of the sale of box b for `total` cents, in order, in the log of
\* one callback
SaleInOrder(events, b, total, connected) ==
  \E u \in DOMAIN events :
    /\ events[u] = <<"unlock", b>>
    /\ \E s \in DOMAIN events :
         /\ s > u
         /\ events[s] = <<"status", b, FALSE>>
         /\ connected =>
              /\ \E p \in (u + 1)..(s - 1) : SystemPublished(events, p, TRUE, b, total)
              /\ \E q \in DOMAIN events :
                   /\ q > s
                   /\ EmptyBoxPublished(events, q, b)
                   /\ \E r \in DOMAIN events :
                        /\ r > q
                        /\ SummaryPublished(events, r)
                        /\ \E i \in DOMAIN events :
                             /\ i > r
                             /\ SystemPublished(events, i, FALSE, 0, 0)
                             /\ \A j \in DOMAIN events :
                                  j > i => events[j][1] # "publish"

\* C28: the steps of a sale happen in one tick in this order: the target box
\* is unlocked, the system state is published with honey_available set, the
\* selected box and the total, the box is marked empty, persisted and
\* published (box, then summary), the session is reset and the system
\* state is published idle; with the broker connected the retained system
\* payload after the tick shows selected box 0 and total 0.
C28_SaleOrder ==
  [][(SaleDue /\ Every100ms)
     => LET b == vending.selected_box_id
            total == Add32(vending.total_cents, PulsesToCents(vending.pulse_count))
        IN /\ SaleInOrder(host_log'.events, b, total, mqtt_connected)
           /\ ~Restarted(settings').box_status[b - 1]
           /\ SaleDone(vending', b)
           /\ mqtt_connected
                => /\ retained'.system[1] = "system"
                   /\ retained'.system[4] = 0
                   /\ retained'.system[2] = 0
    ]_vars

\* the same for a selected box that is within the box count
C28_OrderWithinCount ==
  [][(SaleDue /\ Every100ms /\ vending.selected_box_id <= vending.box_count)
     => LET b == vending.selected_box_id
            total == Add32(vending.total_cents, PulsesToCents(vending.pulse_count))
        IN /\ SaleInOrder(host_log'.events, b, total, mqtt_connected)
           /\ ~Restarted(settings').box_status[b - 1]
           /\ SaleDone(vending', b)
           /\ mqtt_connected
                => /\ retained'.system[1] = "system"
                   /\ retained'.system[4] = 0
                   /\ retained'.system[2] = 0
    ]_vars

\* whatever the box count, a sale tick with the broker connected ends with
\* the retained system payload showing selected box 0 and total 0
C28_LastPayloadIdle ==
  [][(SaleDue /\ Every100ms /\ mqtt_connected)
     => /\ retained'.system[1] = "system"
        /\ retained'.system[4] = 0
        /\ retained'.system[2] = 0
        /\ ~retained'.system[6]
    ]_vars

----------------------------------------------------------------------------
(* Specification of the tick throttles: the host calls both ticks at any   *)
(* of the instants 99, 100, 199, 200, 250, 299, ... ms after boot          *)

ThrottleInstants ==
  {PERIODIC_CHECK_MS} \cup {k * TICK_INTERVAL_MS - 1 : k \in 1..MaxPolls}
    \cup {k * TICK_INTERVAL_MS : k \in 1..MaxPolls}

\* the time to the next instant
ThrottleStep ==
  (CHOOSE t \in ThrottleInstants :
     t > now /\ \A u \in ThrottleInstants : u > now => t <= u) - now

NextThrottle ==
  \/ now < MaxPolls * TICK_INTERVAL_MS /\ Elapse(ThrottleStep)
  \/ Every100ms
  \/ Every250ms
  \/ response = NoPayload /\ MqttConnected
  \/ MqttDisconnected
  \/ vending.coins_detected = 0 /\ VendingTest(Text(1))
  \/ ButtonsChange(AllReleased - 1)
  \/ ButtonsChange(AllReleased)

SpecThrottle == InitSession /\ [][NextThrottle]_vars

\* the 100 ms (250 ms) tick last ran less than its interval ago
Within100 ==
  /\ host_log.ran100 # <<>>
  /\ ULt(Sub32(now, host_log.ran100[1]), TICK_INTERVAL_MS)
Within250 ==
  /\ host_log.ran250 # <<>>
  /\ ULt(Sub32(now, host_log.ran250[1]), PERIODIC_CHECK_MS)

\* C31: a 100 ms (250 ms) tick callback invoked less than 100 ms (250 ms)
\* after the last time that tick ran changes no state and makes no publish
\* call or peripheral access, however often the host calls it.
C31_TicksThrottled ==
  [][/\ (Within100 /\ Every100ms) => UNCHANGED vars
     /\ (Within250 /\ Every250ms) => UNCHANGED vars]_vars

\* both ticks are called 99 and 249 ms after they last ran, with a coin
\* burst waiting, a button pressed and the broker connected
C31_Witness ==
  /\ host_log.ran100 # <<>>
  /\ host_log.ran250 # <<>>
  /\ Sub32(now, host_log.ran100[1]) = TICK_INTERVAL_MS - 1
  /\ Sub32(now, host_log.ran250[1]) = PERIODIC_CHECK_MS - 1
  /\ vending.pulse_count # 0
  /\ mcp_gpio # vending.last_button_state
  /\ mqtt_connected

----------------------------------------------------------------------------
(* Periodic republish: the 250 ms tick called every 250 ms with the broker *)
(* connected, full publishes by commands at a few instants                 *)

\* the instants at which the connection comes up and commands arrive
CommandInstants ==
  {0, PERIODIC_CHECK_MS, HONEY_PUBLISH_INTERVAL - PERIODIC_CHECK_MS, HONEY_PUBLISH_INTERVAL}

RepublishHorizon == MaxRepublish * HONEY_PUBLISH_INTERVAL + 2 * PERIODIC_CHECK_MS

\* the host has called the 250 ms tick at this instant and it ran
TickDone == ~mqtt_connected \/ now = 0 \/ host_log.ran250 = <<now>>

NextRepublish ==
  \/ TickDone /\ now < RepublishHorizon /\ Elapse(PERIODIC_CHECK_MS)
  \/ Every250ms
  \/ ~mqtt_connected /\ now \in CommandInstants /\ MqttConnected
  \/ now \in CommandInstants /\ VendingClearAll
  \/ now \in CommandInstants /\ VendingFillAll
  \/ now \in CommandInstants /\ VendingPublish
  \/ now \in CommandInstants /\ VendingBoxCount(Text(2))

SpecRepublish == InitSession /\ [][NextRepublish]_vars

\* the step is a 250 ms tick that got past its guards and published
PeriodicPublish ==
  /\ last_periodic_check' # last_periodic_check
  /\ Publishes(host_log'.events) # <<>>

----------------------------------------------------------------------------
(* Money in the idle machine *)

\* C33: in every state between callbacks with no box selected
\* (selected_box_id = 0) total_cents and coins_detected are 0: a recognised
\* coin finalized while no box is selected does not change the total.
C33_IdleNoMoney ==
  vending.selected_box_id = 0 =>
    vending.total_cents = 0 /\ vending.coins_detected = 0

\* money in an idle machine only ever comes from a tick that books a
\* recognised coin with no box selected
C33_OnlyIdleCoin ==
  [][(/\ vending'.selected_box_id = 0
      /\ vending'.total_cents # 0
      /\ vending'.total_cents # vending.total_cents) =>
        /\ vending.selected_box_id = 0
        /\ last_check' # last_check
        /\ vending'.total_cents = vending.total_cents + CoinCents(vending.pulse_count)
        /\ vending'.coins_detected = vending.coins_detected + 1]_vars

----------------------------------------------------------------------------
(* The selected box and the box count *)

\* C34: selected_box_id <= box_count in every reachable state, also after
\* the box count was decreased below the selected box in a session, so a
\* session that reaches its price has a box it can unlock and mark empty.
C34_SelectedWithinCount == vending.selected_box_id <= vending.box_count

\* a selection command never selects a box beyond the box count
C34_SelectWithinCount ==
  [][vending'.selected_box_id # vending.selected_box_id =>
        vending'.selected_box_id <= vending.box_count]_vars

\* a sale tick on a box beyond the box count unlocks and marks nothing
C34_RetiredSale ==
  [][(SaleDue /\ last_check' # last_check
        /\ vending.selected_box_id > vending.box_count) =>
        /\ vending'.unlocked_box_id = vending.unlocked_box_id
        /\ vending'.shift_reg_state = vending.shift_reg_state
        /\ vending'.box_status = vending.box_status
        /\ settings' = settings
        /\ vending'.total_cents = 0]_vars

----------------------------------------------------------------------------
(* Shrinking the box count and growing it again *)

\* Rtc.utc_time moves on by one second
RtcSecond ==
  /\ utc_time' = utc_time + 1
  /\ UNCHANGED <<vending, settings, response, mqtt_connected, retained, now,
                 last_check, last_periodic_check, mcp_gpio, last_unlock, host_log,
                 motor_position_offset, lcd, shift_hw, train, tick, advances>>

RegrowCounts == {1, 2, 3}

NextRegrow ==
  \/ utc_time \in {u + k : u \in UtcTimes, k \in 0..(MaxAdvances - 1)} /\ RtcSecond
  \/ \E n \in RegrowCounts : VendingBoxCount(Text(n))
  \/ \E n \in RegrowCounts : VendingToggle(Text(n))
  \/ VendingSetPrice(Text2(3, MIN_PRICE_CENTS))

SpecRegrow == InitSession /\ [][NextRegrow]_vars

\* C35: decreasing the box count from m to n leaves the in-memory status,
\* price and timestamp of boxes n+1..m as they were; a later increase resets
\* each box it brings back to empty, price 500 and the current time.
C35_ShrinkKeepsGrowResets ==
  [][/\ vending'.box_count < vending.box_count =>
          \A i \in vending'.box_count..(vending.box_count - 1) :
            /\ vending'.box_status[i] = vending.box_status[i]
            /\ vending'.box_price[i] = vending.box_price[i]
            /\ vending'.box_last_changed[i] = vending.box_last_changed[i]
     /\ vending'.box_count > vending.box_count =>
          \A i \in vending.box_count..(vending'.box_count - 1) :
            /\ ~vending'.box_status[i]
            /\ vending'.box_price[i] = DEFAULT_PRICE_CENTS
            /\ vending'.box_last_changed[i] = utc_time]_vars

\* box 3, stored available at 0.20, is back after a shrink: empty, at the
\* default price and stamped with a time later than the boot time
C35_Witness ==
  /\ vending.box_count = 3
  /\ host_log.events # <<>>
  /\ host_log.events[Len(host_log.events)] = <<"box_count", 3>>
  /\ ~vending.box_status[2]
  /\ vending.box_price[2] = DEFAULT_PRICE_CENTS
  /\ vending.box_last_changed[2] = utc_time
  /\ utc_time \notin UtcTimes

----------------------------------------------------------------------------
(* The retained payloads against the machine, broker connected throughout *)

NextCurrent ==
  \/ ~mqtt_connected /\ MqttConnected
  \/ mqtt_connected /\ Advance(TICK_INTERVAL_MS)
  \/ mqtt_connected /\ Every100ms
  \/ mqtt_connected /\ VendingSelectBox(Text(0))
  \/ mqtt_connected /\ VendingSelectBox(Text(3))
  \/ mqtt_connected /\ VendingTest(Text(1))
  \/ mqtt_connected /\ VendingSetPrice(Text2(3, MIN_PRICE_CENTS))
  \/ mqtt_connected /\ VendingBoxCount(Text(2))

SpecCurrent == InitSession /\ [][NextCurrent]_vars

\* C36: with the broker connected from the connect notification on, after
\* every completed callback the last payload on the system topic reports
\* the current selected_box_id, total_cents, target price, coins_detected
\* and box_count, also after a deselection and after a price change of the
\* selected box.
C36_SystemCurrent ==
  mqtt_connected => retained.system = SystemPayload(vending)

\* the system payload goes stale only by a deselection that ends a session
\* or discards money, or by a price change of the selected box; every other
\* callback leaves it current
C36_StaleOnlyBy ==
  [][(/\ mqtt_connected
      /\ retained.system = SystemPayload(vending)
      /\ retained'.system # SystemPayload(vending')) =>
        \/ /\ VendingSelectBox(Text(0))
           /\ vending.selected_box_id # 0 \/ vending.total_cents # 0
        \/ /\ VendingSetPrice(Text2(3, MIN_PRICE_CENTS))
           /\ vending.selected_box_id = 3]_vars

\* box commands with the broker connected from the start
NextTopics ==
  \/ ~mqtt_connected /\ MqttConnected
  \/ mqtt_connected /\ utc_time \in UtcTimes /\ RtcSecond
  \/ \E n \in RegrowCounts : mqtt_connected /\ VendingToggle(Text(n))
  \/ mqtt_connected /\ VendingSet(Text2(1, 0))
  \/ mqtt_connected /\ VendingSetPrice(Text2(3, MIN_PRICE_CENTS))
  \/ mqtt_connected /\ VendingClearAll
  \/ mqtt_connected /\ VendingFillAll
  \/ \E n \in RegrowCounts : mqtt_connected /\ VendingBoxCount(Text(n))

SpecTopics == InitSession /\ [][NextTopics]_vars

\* C37: with the broker connected throughout, after every completed
\* callback the last payload on each box topic 1..box_count reports that
\* box's current status, price and timestamp, and the last summary payload
\* reports the current total, available and empty counts.
C37_TopicsCurrent ==
  mqtt_connected =>
    /\ \A n \in 1..vending.box_count : retained.box[n] = BoxPayload(vending, n)
    /\ retained.summary = SummaryPayload(vending)

\* after a price change of box 3 and ClearAll one second later the box
\* topic shows the new price, empty and the new time, the summary 0 of 3
C37_Witness ==
  /\ mqtt_connected
  /\ vending.box_count = 3
  /\ utc_time \notin UtcTimes
  /\ retained.box[3] = <<"box", 3, FALSE, MIN_PRICE_CENTS, utc_time>>
  /\ retained.summary = <<"summary", 3, 0, 3>>

----------------------------------------------------------------------------
(* Discovery entries of boxes retired without a connection *)

\* the boxes beyond the box count
RetiredBoxes == (vending.box_count + 1)..MAX_HONEY_BOX_COUNT

\* C38: after the box count was decreased from m to n while the broker was
\* not connected, the discovery entries of boxes n+1..m have been withdrawn
\* once the next connect notification has been handled.
C38_WithdrawnOnConnect ==
  [][(vending.initialized /\ ~mqtt_connected /\ MqttConnected) =>
       \A i \in RetiredBoxes :
         retained.ha_box[i] = DiscoveryPayload(i) => retained'.ha_box[i] = NoPayload]_vars

\* a connect notification publishes nothing to the discovery topic of a box
\* beyond the box count
C38_ConnectLeavesRetired ==
  [][MqttConnected =>
       \A i \in RetiredBoxes :
         /\ ConfigPublishes(host_log'.events, i) = {}
         /\ retained'.ha_box[i] = retained.ha_box[i]]_vars

----------------------------------------------------------------------------
(* The shift-out, one pin write at a time *)

\* the outputs written in SpecShift: both ends of chip 0, the first output
\* of chip 1, the last of chip 3, and a position beyond the chain
ShiftBits == {0, 7, 8, NUM_SHIFT_REGISTERS * 8 - 1, NUM_SHIFT_REGISTERS * 8}

\* ShiftReg_SetBit in one step
SetBit(bit_position, state) ==
  /\ shift_hw.pending = <<>>
  /\ Apply(ShiftReg_SetBit(Machine, bit_position, state))
  /\ UNCHANGED env_vars

\* ShiftReg_SetBit up to its call of ShiftReg_Write
SetBitEnter(bit_position, state) ==
  /\ shift_hw.pending = <<>>
  /\ bit_position < NUM_SHIFT_REGISTERS * 8
  /\ vending' = [vending EXCEPT
                   !.shift_reg_state = MirrorWithBit(@, bit_position, state)]
  /\ shift_hw' = [shift_hw EXCEPT
                    !.pending = PinWrites(vending'.shift_reg_state, NUM_SHIFT_REGISTERS)]
  /\ UNCHANGED <<settings, response, mqtt_connected, retained, now, utc_time,
                 last_check, last_periodic_check, mcp_gpio, last_unlock, host_log,
                 motor_position_offset, lcd, train, tick, advances>>

\* the next digitalWrite of the running ShiftReg_Write
PinWrite ==
  /\ shift_hw.pending # <<>>
  /\ shift_hw' = [digitalWrite(shift_hw, Head(shift_hw.pending)[1],
                               Head(shift_hw.pending)[2])
                    EXCEPT !.pending = Tail(shift_hw.pending)]
  /\ UNCHANGED <<vending, settings, response, mqtt_connected, retained, now, utc_time,
                 last_check, last_periodic_check, mcp_gpio, last_unlock, host_log,
                 motor_position_offset, lcd, train, tick, advances>>

NextShift ==
  \/ \E b \in ShiftBits, state \in BOOLEAN : SetBit(b, state)
  \/ \E b \in ShiftBits, state \in BOOLEAN : SetBitEnter(b, state)
  \/ PinWrite

SpecShift == InitSession /\ [][NextShift]_vars

\* output j of chip k carries bit j of mirror entry k
OutputsFollowMirror ==
  \A k \in RegIndex, j \in 0..7 :
    Output(shift_hw, 8 * k + j) = (BitOf(vending.shift_reg_state[k], j) = 1)

\* C40: after each full-chain write and latch pulse, output j (0..7) of
\* chip k (0..3, chip 0 nearest the controller) equals bit j of mirror entry
\* k, so box N drives output (N-1) mod 8 of chip (N-1) div 8; the outputs
\* change only at the latch pulse; setting one bit leaves the other 31
\* outputs unchanged.
C40_ShiftOut ==
  [][/\ shift_hw'.pending = <<>> => OutputsFollowMirror'
     /\ shift_hw'.out # shift_hw.out =>
          \/ /\ shift_hw.pending # <<>>
             /\ Head(shift_hw.pending) = <<"latch", TRUE>>
             /\ Len(shift_hw.pending) = 2
          \/ shift_hw.pending = <<>> /\ shift_hw'.pending = <<>>
     /\ \A b \in ShiftBits, state \in BOOLEAN :
          SetBit(b, state) =>
            \A p \in OutputIndex :
              Output(shift_hw', p) = IF p = b THEN state ELSE Output(shift_hw, p)]_vars

\* the last output of chip 3 and the first of chip 1 are high, the others
\* low, and the write that raised one of them is about to pulse the latch
C40_Witness ==
  /\ Len(shift_hw.pending) = 2
  /\ shift_hw.stage[NUM_SHIFT_REGISTERS * 8]
  /\ shift_hw.stage[8 + 1]
  /\ shift_hw.out # shift_hw.stage
  /\ \A p \in OutputIndex \ {8, NUM_SHIFT_REGISTERS * 8 - 1} : ~shift_hw.stage[p + 1]

----------------------------------------------------------------------------
(* INIT in the middle of operation *)

NextRestart ==
  \/ FuncInit
  \/ response = NoPayload /\ now = 0 /\ MqttConnected
  \/ now < TICK_INTERVAL_MS /\ Elapse(TICK_INTERVAL_MS)
  \/ Every100ms
  \/ VendingSelectBox(Text(1))
  \/ vending.pulse_count = 0 /\ vending.coins_detected = 0 /\ VendingTest(Text(1))
  \/ vending.unlocked_box_id = 0 /\ VendingUnlock(Text(2))
  \/ motor_position_offset = 0 /\ VendingMotor(CoinRejectText)
  \/ ButtonsChange(AllReleased - 1)

SpecRestart == InitSession /\ [][NextRestart]_vars

\* C39: INIT from any prior state leaves every lock output locked and
\* unlocked_box_id = 0, the session Idle (selected_box_id 0, total_cents 0,
\* coins_detected 0, honey_available false, pulse counter 0), the motor
\* offset 0, the previous button snapshot all-released and discovery marked
\* not sent, while box count, statuses, prices and timestamps are those of
\* the persisted slots.
C39_SafeStart ==
  [][FuncInit =>
       /\ \A p \in OutputIndex : Output(shift_hw', p) = ~SOLENOID_ACTIVE_HIGH
       /\ \A r \in RegIndex : vending'.shift_reg_state[r] = LockedPattern
       /\ vending'.unlocked_box_id = 0
       /\ vending'.selected_box_id = 0
       /\ vending'.total_cents = 0
       /\ vending'.coins_detected = 0
       /\ ~vending'.honey_available
       /\ vending'.pulse_count = 0
       /\ motor_position_offset' = 0
       /\ vending'.last_button_state = AllReleased
       /\ ~vending'.discovery_sent
       /\ vending'.box_count = Restarted(settings).box_count
       /\ \A f \in BoxFields : vending'[f] = Restarted(settings)[f]
       /\ settings' = settings]_vars

\* INIT has run with the broker connected (discovery sent), box 1 sold less
\* than an unlock duration ago, the gate motor off its home position until
\* then and a button held down
C39_Witness ==
  /\ host_log.events # <<>>
  /\ host_log.events[1] = <<"init">>
  /\ mqtt_connected
  /\ retained.box[1] = <<"box", 1, FALSE, MIN_PRICE_CENTS, utc_time>>
  /\ ULt(now, UNLOCK_DURATION_MS)
  /\ mcp_gpio # AllReleased
  /\ last_check # 0
  /\ \A p \in OutputIndex : ~Output(shift_hw, p)

====
